---- MODULE Spec2Model ----
(***************************************************************************)
(* Order lifecycle of the trading bot: ApiTrader (runTrader, sendOrder,    *)
(* queueOrder, updateStatus, pushOrder, refreshAccountSummary,             *)
(* updateAccountBalance), OrderBuilder (standardOrder, OCOorder) and Tasks *)
(* (extractOCOchildren, addNewStrategy, checkOCOtriggers, runTasks); the   *)
(* access token check of Schwab.checkTokenValidity with the token calls of *)
(* the schwabdev Client.                                                   *)
(*                                                                         *)
(* Python dicts are functions on strings; a key whose value is None in the *)
(* source is an absent key here.  Mongo collections are sequences of       *)
(* documents in insertion order.  Prices are fixed-point integers in units *)
(* of 1/PriceUnit; dates are readings of a logical clock.                  *)
(***************************************************************************)
EXTENDS Integers, Sequences, FiniteSets, TLC

VARIABLES
    RUN_LIVE_TRADER,   \* ApiTrader.RUN_LIVE_TRADER
    strategies,        \* mongo.strategies
    forbidden,         \* mongo.forbidden
    queue,             \* mongo.queue
    open_positions,    \* mongo.open_positions
    closed_positions,  \* mongo.closed_positions
    rejected,          \* mongo.rejected
    canceled,          \* mongo.canceled
    obj,               \* OrderBuilder.obj  (one dict, reused by every build)
    order,             \* OrderBuilder.order (one dict, reused by every build)
    pc,                \* position of runTrader: "idle" or "rows" (inside the loop)
    clock,             \* what getDatetime() returns
    isAlive,           \* Tasks.isAlive
    tpc,               \* position of runTasks: "top" (at the while test),
                       \* "balance", "sleep" or "stopped"
    frames,            \* per thread, where it is inside updateStatus /
                       \* checkOCOtriggers / pushOrder and the locals it holds
    users,             \* mongo.users: the user's Accounts[account_id] entry
    tokens_file,       \* the content of Client._tokens_file
    unix_time,         \* what time.time() returns
    trace              \* broker calls, notifications and exceptions of the last step

vars == <<RUN_LIVE_TRADER, strategies, forbidden, queue, open_positions,
          closed_positions, rejected, canceled, obj, order, pc, clock, isAlive,
          tpc, frames, users, tokens_file, unix_time, trace>>

---------------------------------------------------------------------------
(* Bounds and domains of the inputs *)

\* the clock's last reading: it advances with every order the builder is asked
\* for, and at MaxClock no further order is built
MaxClock == 2

\* prices are counted in 1/PriceUnit: five decimal places
PriceUnit == 10 ^ 5

\* the trader's thread and the thread of runTasks; a thread outside the
\* stepwise handlers holds no frame
Threads == {"trader", "tasks"}
Idle == [at |-> "idle"]
NoFrames == [t \in Threads |-> Idle]

userName == "T"
account_id == "A1"

Symbols == {"SPY"}
StrategyNames == {"S1"}
Sides == {"BUY", "SELL", "BUY_TO_OPEN", "SELL_TO_OPEN", "BUY_TO_CLOSE", "SELL_TO_CLOSE"}
EquitySides == {"BUY", "SELL"}

---------------------------------------------------------------------------
(* Python dict and pymongo collection helpers *)

Has(d, k) == k \in DOMAIN d
Put(d, k, v) == (k :> v) @@ d
\* {**a, **b}
Merge(a, b) == b @@ a

EmptyDict == [k \in {} |-> TRUE]

NoDoc == [none |-> TRUE]
IsNone(d) == Has(d, "none")

Matches(doc, filter) == \A k \in DOMAIN filter : Has(doc, k) /\ doc[k] = filter[k]

FirstMatch(coll, filter) ==
    LET hits == {i \in DOMAIN coll : Matches(coll[i], filter)}
    IN  IF hits = {} THEN 0 ELSE CHOOSE i \in hits : \A j \in hits : i <= j

find(coll, filter) == SelectSeq(coll, LAMBDA d : Matches(d, filter))

find_one(coll, filter) ==
    LET i == FirstMatch(coll, filter) IN IF i = 0 THEN NoDoc ELSE coll[i]

RemoveAt(coll, i) == SubSeq(coll, 1, i - 1) \o SubSeq(coll, i + 1, Len(coll))

delete_one(coll, filter) ==
    LET i == FirstMatch(coll, filter) IN IF i = 0 THEN coll ELSE RemoveAt(coll, i)

\* the new document takes the place of the newest one
insert_one_OverLast(coll, doc) ==
    IF coll = <<>> THEN <<doc>> ELSE [coll EXCEPT ![Len(coll)] = doc]

insert_one(coll, doc) == Append(coll, doc)

\* update_one(filter, {"$set": fields}, upsert)
update_one(coll, filter, fields, upsert) ==
    LET i == FirstMatch(coll, filter)
    IN  IF i # 0 THEN [coll EXCEPT ![i] = Merge(coll[i], fields)]
        ELSE IF upsert THEN Append(coll, Merge(filter, fields))
        ELSE coll

\* update_one(filter, {"$setOnInsert": doc}, upsert=True)
update_one_setOnInsert(coll, filter, doc) ==
    IF FirstMatch(coll, filter) # 0 THEN coll ELSE Append(coll, Merge(filter, doc))

KeyOf(d) == [Trader |-> userName, Symbol |-> d.Symbol, Strategy |-> d.Strategy]

---------------------------------------------------------------------------
(* Price arithmetic *)

\* round-half-even of n/d for n >= 0, d > 0
RoundDiv(n, d) ==
    LET q == n \div d
        r == n % d
    IN  IF 2 * r > d \/ (2 * r = d /\ q % 2 = 1) THEN q + 1 ELSE q

\* round(price, 2) and round(price, 4)
Round2(p) == RoundDiv(p, PriceUnit \div 100) * (PriceUnit \div 100)
Round4(p) == RoundDiv(p, PriceUnit \div 10000) * (PriceUnit \div 10000)

\* price = round(price, 2) if price >= 1 else round(price, 4)
RoundFill(p) == IF p >= PriceUnit THEN Round2(p) ELSE Round4(p)

---------------------------------------------------------------------------
(* The stores and the builder's dicts, as one value the handlers thread *)

World ==
    [strategies |-> strategies, queue |-> queue, open_positions |-> open_positions,
     closed_positions |-> closed_positions, rejected |-> rejected,
     canceled |-> canceled, obj |-> obj, order |-> order, trace |-> <<>>]

Log(w, e) == [w EXCEPT !.trace = Append(@, e)]

getDatetime == clock

\* assets.exception_handler: the exception is logged and the call returns None
Raised(w, where) == Log(w, [op |-> "exception", in |-> where])

\* Schwab.checkTokenValidity as called by the operation `where`, and its answer
checkTokenValidity(w, where, ok) ==
    Log(w, [op |-> "checkTokenValidity", in |-> where, ok |-> ok])

---------------------------------------------------------------------------
(* ApiTrader.pushOrder *)

\* how collection_insert(obj) goes: at once, at the retry, never (the retry
\* raises too), or with an exception the last handler swallows
InsertOutcomes == {"ok", "retry_ok", "retry_fail", "error"}
StoreWorks == {"ok"}

pushOrderReads ==
    {"Symbol", "Strategy", "Side", "account_id", "Position_Size", "Asset_Type",
     "Position_Type", "Direction", "Account_Position", "Order_Type"}

\* lines 302-309
FillPrice(spec_order) ==
    RoundFill(IF Has(spec_order, "orderActivityCollection")
              THEN spec_order.orderActivityCollection[1].executionLegs[1].price
              ELSE spec_order.price)

FillShares(queue_order, spec_order) ==
    IF Has(spec_order, "orderActivityCollection")
    THEN spec_order.quantity
    ELSE queue_order.Qty

\* lines 320-336
PositionBase(queue_order, data_integrity) ==
    LET base == [Symbol |-> queue_order.Symbol,
                 Strategy |-> queue_order.Strategy,
                 Position_Size |-> queue_order.Position_Size,
                 Position_Type |-> queue_order.Position_Type,
                 Data_Integrity |-> data_integrity,
                 Trader |-> userName,
                 account_id |-> queue_order.account_id,
                 Asset_Type |-> queue_order.Asset_Type,
                 Account_Position |-> queue_order.Account_Position,
                 Order_Type |-> queue_order.Order_Type]
    IN  IF queue_order.Asset_Type = "OPTION"
        THEN Merge(base, [Pre_Symbol |-> queue_order.Pre_Symbol,
                          Exp_Date |-> queue_order.Exp_Date,
                          Option_Type |-> queue_order.Option_Type])
        ELSE base

\* lines 341-345
OpenRecord(queue_order, spec_order, data_integrity) ==
    Merge(PositionBase(queue_order, data_integrity),
          [Qty |-> FillShares(queue_order, spec_order),
           Entry_Price |-> FillPrice(spec_order),
           Entry_Date |-> getDatetime])

\* the closed record's entry price taken from the closing fill
ClosedRecord_EntryFromFill(queue_order, spec_order, data_integrity, position) ==
    Merge(PositionBase(queue_order, data_integrity),
          [Qty |-> position.Qty,
           Entry_Price |-> FillPrice(spec_order),
           Entry_Date |-> position.Entry_Date,
           Exit_Price |-> FillPrice(spec_order),
           Exit_Date |-> getDatetime])

\* lines 357-361
ClosedRecord(queue_order, spec_order, data_integrity, position) ==
    Merge(PositionBase(queue_order, data_integrity),
          [Qty |-> position.Qty,
           Entry_Price |-> position.Entry_Price,
           Entry_Date |-> position.Entry_Date,
           Exit_Price |-> FillPrice(spec_order),
           Exit_Date |-> getDatetime])

\* lines 390-404: the insert, retried once after a WriteConcernError/WriteError
\* (an insert that raises has written nothing)
InsertWritten(ins) == ins \in {"ok", "retry_ok"}
InsertEscapes(ins) == ins = "retry_fail"

\* the queue entry is left behind
pushOrderFinish_KeepsQueue(w, queue_order) ==
    Log(w, [op |-> "push.send", Symbol |-> queue_order.Symbol,
            Strategy |-> queue_order.Strategy, Direction |-> queue_order.Direction])

\* lines 406-416
pushOrderFinish(w, queue_order) ==
    Log([w EXCEPT !.queue = delete_one(@, Merge(KeyOf(queue_order),
                                                [account_id |-> account_id]))],
        [op |-> "push.send", Symbol |-> queue_order.Symbol,
         Strategy |-> queue_order.Strategy, Direction |-> queue_order.Direction])

pushOrderBody(w, queue_order, spec_order, data_integrity, ins) ==
    IF ~(pushOrderReads \subseteq DOMAIN queue_order)
       \/ (queue_order.Asset_Type = "OPTION"
           /\ ~({"Pre_Symbol", "Exp_Date", "Option_Type"} \subseteq DOMAIN queue_order))
    THEN Raised(w, "pushOrder")
    ELSE IF queue_order.Direction = "OPEN POSITION"
    THEN LET rec == OpenRecord(queue_order, spec_order, data_integrity)
             w1 == IF InsertWritten(ins)
                   THEN [w EXCEPT !.open_positions = insert_one(@, rec)]
                   ELSE w
         IN  IF InsertEscapes(ins) THEN Raised(w1, "pushOrder")
             ELSE pushOrderFinish(w1, queue_order)
    ELSE LET position == find_one(w.open_positions, KeyOf(queue_order))
         IN  IF IsNone(position) THEN Raised(w, "pushOrder")
             ELSE LET rec == ClosedRecord(queue_order, spec_order, data_integrity, position)
                      w1 == [w EXCEPT !.open_positions = delete_one(@, KeyOf(queue_order))]
                      w2 == IF InsertWritten(ins)
                            THEN [w1 EXCEPT !.closed_positions = insert_one(@, rec)]
                            ELSE w1
                  IN  IF InsertEscapes(ins) THEN Raised(w2, "pushOrder")
                      ELSE pushOrderFinish(w2, queue_order)

pushOrder(w, queue_order, spec_order, data_integrity, ins) ==
    pushOrderBody(Log(w, [op |-> "pushOrder", Order_ID |-> queue_order.Order_ID,
                          Data_Integrity |-> data_integrity, ins |-> ins]),
                  queue_order, spec_order, data_integrity, ins)

---------------------------------------------------------------------------
(* Tasks.extractOCOchildren *)

\* the two exit types the wrong way round
ChildEntry_TypesSwapped(child) ==
    [Side |-> child.orderLegCollection[1].instruction,
     Exit_Price |-> IF Has(child, "stopPrice") THEN child.stopPrice ELSE child.price,
     Exit_Type |-> IF Has(child, "stopPrice") THEN "TAKE PROFIT" ELSE "STOP LOSS",
     Order_Status |-> child.status]

\* lines 143-148
ChildEntry(child) ==
    [Side |-> child.orderLegCollection[1].instruction,
     Exit_Price |-> IF Has(child, "stopPrice") THEN child.stopPrice ELSE child.price,
     Exit_Type |-> IF Has(child, "stopPrice") THEN "STOP LOSS" ELSE "TAKE PROFIT",
     Order_Status |-> child.status]

extractOCOchildren(spec_order) ==
    LET children == spec_order.childOrderStrategies[1].childOrderStrategies
        ids == {children[i].orderId : i \in DOMAIN children}
        \* a later child with the same orderId overwrites the earlier one
        last(id) == CHOOSE i \in DOMAIN children :
                        /\ children[i].orderId = id
                        /\ \A j \in DOMAIN children : children[j].orderId = id => j <= i
    IN  [childOrderStrategies |-> [id \in ids |-> ChildEntry(children[last(id)])]]

---------------------------------------------------------------------------
(* What the broker answers to get_order *)

ExecPrices == {253700}
OtherStatuses == {"QUEUED", "WORKING"}

TakeProfitChild ==
    [orderId |-> 2001, orderLegCollection |-> <<[instruction |-> "SELL_TO_CLOSE"]>>,
     price |-> 380000, status |-> "WORKING"]
StopLossChild ==
    [orderId |-> 2002, orderLegCollection |-> <<[instruction |-> "SELL_TO_CLOSE"]>>,
     stopPrice |-> 120000, status |-> "ACCEPTED"]
ChildPairs == {<<TakeProfitChild, StopLossChild>>, <<StopLossChild, TakeProfitChild>>}

\* the snapshot of an order placed with a bracket nests the bracket's two children
WithChildren(queue_order, snap) ==
    IF queue_order.Order_Type = "OCO"
    THEN {Merge(snap, [childOrderStrategies |->
                          <<[orderStrategyType |-> "OCO", childOrderStrategies |-> cs]>>])
          : cs \in ChildPairs}
    ELSE {snap}

NotFound == [error |-> "Order not found"]

FilledSnapshots(queue_order) ==
    UNION {WithChildren(queue_order, snap) : snap \in
        {[orderId |-> queue_order.Order_ID, status |-> "FILLED",
          quantity |-> queue_order.Qty, price |-> p,
          orderActivityCollection |-> <<[executionLegs |-> <<[price |-> p]>>]>>]
            : p \in ExecPrices}}

StatusSnapshots(queue_order) ==
    {[orderId |-> queue_order.Order_ID, status |-> s]
        : s \in {"CANCELED", "REJECTED"} \cup OtherStatuses}
    \cup {[orderId |-> 0, status |-> "FILLED"]}

\* a paper order id is unknown to the broker
PollInputs(queue_order, outcomes) ==
    IF queue_order.Account_Position = "Paper"
    THEN {[resp |-> NotFound, ins |-> i] : i \in outcomes}
    ELSE {[resp |-> r, ins |-> i]
            : r \in {NotFound} \cup FilledSnapshots(queue_order), i \in outcomes}
         \cup {[resp |-> r, ins |-> "ok"] : r \in StatusSnapshots(queue_order)}

RECURSIVE PollInputSeqs(_, _)
PollInputSeqs(queued_orders, outcomes) ==
    IF queued_orders = <<>> THEN {<<>>}
    ELSE {<<i>> \o rest : i \in PollInputs(Head(queued_orders), outcomes),
                          rest \in PollInputSeqs(Tail(queued_orders), outcomes)}

---------------------------------------------------------------------------
(* ApiTrader.updateStatus *)

\* lines 270-278
AuditRecord(queue_order, order_type, status) ==
    [Symbol |-> queue_order.Symbol, Order_Type |-> order_type, Order_Status |-> status,
     Strategy |-> queue_order.Strategy, Trader |-> userName, Date |-> getDatetime,
     account_id |-> account_id]

\* the status update also restamps the entry date
StatusFields_RestampsEntry(new_status) ==
    [Order_Status |-> new_status, Entry_Date |-> getDatetime + 1]

\* lines 286-290
StatusFields(new_status) == [Order_Status |-> new_status]

\* `else` where the code has `elif`: every status but FILLED is audited
MovesToAudit_AnyUnfilled(new_status) == TRUE

\* line 263
MovesToAudit(new_status) == new_status \in {"CANCELED", "REJECTED"}

\* a rejection filed under canceled and a cancellation under rejected
MoveToAudit_StoresSwapped(w, queue_order, new_status) ==
    LET w1 == [w EXCEPT !.queue = delete_one(@, Merge(KeyOf(queue_order),
                                                     [account_id |-> account_id]))]
        other == AuditRecord(queue_order, queue_order.Order_Type, new_status)
    IN  IF new_status = "REJECTED"
        THEN [w1 EXCEPT !.canceled = insert_one(@, other)]
        ELSE [w1 EXCEPT !.rejected = insert_one(@, other)]

\* lines 264-285
MoveToAudit(w, queue_order, new_status) ==
    LET w1 == [w EXCEPT !.queue = delete_one(@, Merge(KeyOf(queue_order),
                                                     [account_id |-> account_id]))]
        other == AuditRecord(queue_order, queue_order.Order_Type, new_status)
    IN  IF new_status = "REJECTED"
        THEN [w1 EXCEPT !.rejected = insert_one(@, other)]
        ELSE [w1 EXCEPT !.canceled = insert_one(@, other)]

\* lines 242-251
DataIntegrity == IF RUN_LIVE_TRADER THEN "Assumed" ELSE "Reliable"

\* the entry price whatever the direction
Custom_EntryPriceOnly(queue_order) ==
    [price |-> queue_order.Entry_Price, shares |-> queue_order.Qty]

\* lines 238-241
Custom(queue_order) ==
    [price |-> IF queue_order.Direction = "OPEN POSITION"
               THEN queue_order.Entry_Price ELSE queue_order.Exit_Price,
     shares |-> queue_order.Qty]

\* one pass of the loop, lines 232-290
updateStatusOne(w0, queue_order, in) ==
    LET spec_order == in.resp
        w == Log(w0, [op |-> "get_order", queue_order |-> queue_order,
                      resp |-> spec_order])
    IN  IF Has(spec_order, "error")
        THEN pushOrder(w, queue_order, Custom(queue_order), DataIntegrity, in.ins)
        ELSE IF queue_order.Order_ID # spec_order.orderId THEN w
        ELSE IF spec_order.status = "FILLED"
        THEN IF queue_order.Order_Type = "OCO"
             THEN LET oco == extractOCOchildren(spec_order)
                  IN  pushOrder(Log(w, [op |-> "extractOCOchildren",
                                        Order_ID |-> queue_order.Order_ID,
                                        children |-> oco.childOrderStrategies]),
                                Merge(queue_order, oco), spec_order, "Reliable", in.ins)
             ELSE pushOrder(w, queue_order, spec_order, "Reliable", in.ins)
        ELSE IF MovesToAudit(spec_order.status)
        THEN MoveToAudit(w, queue_order, spec_order.status)
        ELSE [w EXCEPT !.queue = update_one(@, KeyOf(queue_order),
                                            StatusFields(spec_order.status), FALSE)]

RECURSIVE updateStatusLoop(_, _, _)
updateStatusLoop(w, queued_orders, ins) ==
    IF queued_orders = <<>> THEN w
    ELSE updateStatusLoop(updateStatusOne(w, Head(queued_orders), Head(ins)),
                          Tail(queued_orders), Tail(ins))

\* lines 226-230
QueuedOrders(w) ==
    SelectSeq(w.queue, LAMBDA d : /\ Matches(d, [Trader |-> userName,
                                                  account_id |-> account_id])
                                   /\ Has(d, "Order_ID"))

updateStatus(w, tokenValid, ins) ==
    LET w1 == checkTokenValidity(w, "updateStatus", tokenValid)     \* line 222
    IN  IF ~tokenValid THEN w1 ELSE updateStatusLoop(w1, QueuedOrders(w), ins)

---------------------------------------------------------------------------
(* OrderBuilder *)

TAKE_PROFIT_PERCENTAGE == 150
STOP_LOSS_PERCENTAGE == 50

\* OrderBuilder.__init__: the keys set to None are left out
InitialOrder ==
    [orderType |-> "LIMIT", orderStrategyType |-> "SINGLE",
     orderLegCollection |-> <<[instrument |-> EmptyDict]>>]
InitialObj == [Trader |-> userName, account_id |-> account_id]

\* trade_data["Pre_Symbol"][length-N:], N = 3
SplitStrike(pre_symbol) ==
    IF pre_symbol = "SPY_092625P569" THEN "569" ELSE "000"

\* schwab.orders.options.OptionSymbol(...).build()
OptionSymbolBuild(symbol, exp_date, right, strike) ==
    IF strike = "569" THEN "SPY   250926P00569000" ELSE "SPY   250926P00000000"

FirstLetter(option_type) == IF option_type = "PUT" THEN "P" ELSE "C"

Quotes ==
    {[bidPrice |-> 12346, askPrice |-> 12500],
     [bidPrice |-> 9990000, askPrice |-> 10000000]}

BuySides == {"BUY", "BUY_TO_OPEN", "BUY_TO_CLOSE"}

\* a bracket order priced like a standard one
QuotedPrice_AskForBuys(side, quote, OCO) ==
    IF side \in BuySides THEN quote.askPrice ELSE quote.bidPrice

\* lines 124-132
QuotedPrice(side, quote, OCO) ==
    IF OCO THEN quote.bidPrice
    ELSE IF side \in BuySides THEN quote.askPrice ELSE quote.bidPrice

\* lines 134-135
OrderPrice(price) == IF price >= PriceUnit THEN Round2(price) ELSE Round2(price)

\* an option contract sized like a share
Shares_IgnoresContractSize(asset_type, position_size, price) ==
    (position_size * PriceUnit) \div price

\* lines 142-143: int(position_size/price), int((position_size / 100)/price)
Shares(asset_type, position_size, price) ==
    IF asset_type = "EQUITY"
    THEN (position_size * PriceUnit) \div price
    ELSE ((position_size * PriceUnit) \div 100) \div price

SetLeg(ord, fields) ==
    [ord EXCEPT !.orderLegCollection[1] = Merge(@, fields)]
SetInstrument(ord, fields) ==
    [ord EXCEPT !.orderLegCollection[1].instrument = Merge(@, fields)]

\* the Active flag is not looked at
MayOpen_IgnoresActive(strategy_object, shares) == shares > 0

\* line 145
MayOpen(strategy_object, shares) == strategy_object.Active /\ shares > 0

\* the entry taken from the quote of the closing order
CloseFields_Requoted(trade_data, price) ==
    [Entry_Price |-> price, Entry_Date |-> getDatetime, Exit_Price |-> price,
     Exit_Date |-> getDatetime, Qty |-> trade_data.Qty,
     Position_Size |-> trade_data.Position_Size]

\* lines 169-179: what a CLOSE POSITION draft takes from trade_data
CloseFields(trade_data, price) ==
    [Entry_Price |-> trade_data.Entry_Price, Entry_Date |-> trade_data.Entry_Date,
     Exit_Price |-> price, Exit_Date |-> getDatetime, Qty |-> trade_data.Qty,
     Position_Size |-> trade_data.Position_Size]

\* the builder's answer: "built" (order, obj), "none" (None, None) or "raised"
Answer(w, kind) == [w |-> w, kind |-> kind]

standardOrder(w, trade_data, strategy_object, direction, OCO, quote) ==
    IF ~Has(trade_data, "Pre_Symbol")
    THEN Answer(Raised(w, "standardOrder"), "raised")      \* line 70: KeyError
    ELSE
    LET symbol == trade_data.Symbol
        split_strike == SplitStrike(trade_data.Pre_Symbol)
        formatted_symbol == OptionSymbolBuild(symbol, trade_data.Exp_Date,
                                FirstLetter(trade_data.Option_Type), split_strike)
        side == trade_data.Side
        asset_type == IF Has(trade_data, "Pre_Symbol") THEN "OPTION" ELSE "EQUITY"
        \* lines 83-91
        o1 == SetInstrument(
                SetLeg(Merge(w.order, [session |-> "NORMAL",
                                       duration |-> IF asset_type = "EQUITY"
                                                    THEN "GOOD_TILL_CANCEL" ELSE "DAY"]),
                       [instruction |-> side]),
                [symbol |-> IF asset_type = "EQUITY" THEN symbol ELSE formatted_symbol,
                 assetType |-> asset_type])
        \* lines 95-107
        b1 == Merge(w.obj, [Symbol |-> symbol, Strategy |-> trade_data.Strategy,
                            Side |-> side, Asset_Type |-> asset_type,
                            Position_Type |-> strategy_object.Position_Type,
                            Order_Type |-> strategy_object.Order_Type,
                            Direction |-> direction])
        \* lines 111-119
        b2 == IF asset_type = "OPTION"
              THEN Merge(b1, [Pre_Symbol |-> formatted_symbol,
                              Exp_Date |-> trade_data.Exp_Date,
                              Option_Type |-> trade_data.Option_Type])
              ELSE b1
        o2 == IF asset_type = "OPTION"
              THEN SetInstrument(o1, [putCall |-> trade_data.Option_Type])
              ELSE o1
        \* lines 122-135
        price == QuotedPrice(side, quote, OCO)
        o3 == Merge(o2, [price |-> OrderPrice(price)])
        w3 == Log([w EXCEPT !.order = o3, !.obj = b2],
                  [op |-> "quote", symbol |-> formatted_symbol, quote |-> quote])
    IN  IF direction = "OPEN POSITION"
        THEN LET position_size == strategy_object.Position_Size
                 shares == Shares(asset_type, position_size, price)
             IN  IF MayOpen(strategy_object, shares)
                 THEN Answer([w3 EXCEPT
                                !.order = SetLeg(@, [quantity |-> shares]),
                                !.obj = Merge(@, [Qty |-> shares,
                                                  Position_Size |-> position_size,
                                                  Entry_Price |-> price,
                                                  Entry_Date |-> getDatetime])],
                             "built")
                 ELSE Answer(w3, "none")
        ELSE Answer([w3 EXCEPT
                        !.order = SetLeg(@, [quantity |-> trade_data.Qty]),
                        !.obj = Merge(@, CloseFields(trade_data, price))],
                    "built")

\* the legs take the side of the signal
InverseSide_KeepsSide(side) ==
    IF side \in {"BUY_TO_OPEN", "BUY", "SELL", "SELL_TO_OPEN"} THEN side ELSE "unbound"

\* lines 195-209
InverseSide(side) ==
    CASE side = "BUY_TO_OPEN" -> "SELL_TO_CLOSE"
      [] side = "BUY" -> "SELL"
      [] side = "SELL" -> "BUY"
      [] side = "SELL_TO_OPEN" -> "BUY_TO_CLOSE"
      [] OTHER -> "unbound"

\* round(order["price"] * PERCENTAGE, 2), the percentage in hundredths
BracketPrice(price, percentage) ==
    RoundDiv(price * percentage, 100 * (PriceUnit \div 100)) * (PriceUnit \div 100)

\* lines 223-264
BracketChildren(ord, qty, instruction, asset_type, symbol) ==
    LET leg == [instruction |-> instruction, quantity |-> qty,
                instrument |-> [assetType |-> asset_type, symbol |-> symbol]]
    IN  <<[orderStrategyType |-> "OCO",
           childOrderStrategies |->
             <<[orderStrategyType |-> "SINGLE", session |-> "NORMAL",
                duration |-> "GOOD_TILL_CANCEL", orderType |-> "LIMIT",
                price |-> BracketPrice(ord.price, TAKE_PROFIT_PERCENTAGE),
                orderLegCollection |-> <<leg>>],
               [orderStrategyType |-> "SINGLE", session |-> "NORMAL",
                duration |-> "GOOD_TILL_CANCEL", orderType |-> "STOP",
                stopPrice |-> BracketPrice(ord.price, STOP_LOSS_PERCENTAGE),
                orderLegCollection |-> <<leg>>]>>]>>

OCOorder(w, trade_data, strategy_object, direction, quote) ==
    LET built == standardOrder(w, trade_data, strategy_object, direction, TRUE, quote)
        w1 == built.w
        asset_type == IF Has(trade_data, "Pre_Symbol") THEN "OPTION" ELSE "EQUITY"
        instruction == InverseSide(trade_data.Side)
    IN  IF built.kind = "raised" THEN built
        \* line 221 on None
        ELSE IF built.kind = "none" THEN Answer(Raised(w1, "OCOorder"), "raised")
        ELSE LET formatted_symbol ==
                     OptionSymbolBuild(trade_data.Symbol, trade_data.Exp_Date,
                                       FirstLetter(trade_data.Option_Type),
                                       SplitStrike(trade_data.Pre_Symbol))
                 w2 == [w1 EXCEPT !.order = Merge(@, [orderStrategyType |-> "TRIGGER"])]
             IN  IF instruction = "unbound"
                 THEN Answer(Raised(w2, "OCOorder"), "raised")
                 ELSE Answer([w2 EXCEPT !.order = Merge(@,
                                [childOrderStrategies |->
                                   BracketChildren(w2.order, w2.obj.Qty, instruction,
                                       asset_type,
                                       IF asset_type = "EQUITY" THEN trade_data.Symbol
                                       ELSE formatted_symbol)])],
                             "built")

---------------------------------------------------------------------------
(* ApiTrader.sendOrder and queueOrder *)

\* the order is inserted whether or not the key has a record
queueOrder_Inserts(w, ord) ==
    [w EXCEPT !.queue = insert_one(@, ord)]

\* lines 203-209
queueOrder(w, ord) ==
    [w EXCEPT !.queue = update_one(@, KeyOf(ord), ord, TRUE)]

StatusCodes == {200, 201, 204, 400}
LocationIds == {1001}
PaperRandoms == {100000000, 999999999}

\* what the environment hands one sendOrder call: the token check, the quote,
\* the broker's answer to order_place (Live) or the random number (Paper)
SendInputs ==
    {[tokenValid |-> FALSE]}
    \cup (IF RUN_LIVE_TRADER
          THEN [tokenValid : {TRUE}, quote : Quotes, status_code : StatusCodes,
                location : LocationIds]
          ELSE [tokenValid : {TRUE}, quote : Quotes, rand : PaperRandoms])

\* the sign is lost
PaperOrderId_Unsigned(rand) == rand

\* line 191
PaperOrderId(rand) == -1 * rand

\* every 2xx status counts as placed
Placed_Any2xx(status_code) == status_code \in 200..299

\* line 165
Placed(status_code) == status_code \in {200, 201}

\* lines 171-179
RejectedRecord(symbol, side, strategy) ==
    [Symbol |-> symbol, Order_Type |-> side, Order_Status |-> "REJECTED",
     Strategy |-> strategy, Trader |-> userName, Date |-> getDatetime,
     account_id |-> account_id]

\* lines 141-197
sendOrderBody(w, trade_data, strategy_object, direction, in) ==
    IF strategy_object.Order_Type \notin {"STANDARD", "OCO"} THEN w
    ELSE
    LET built == IF strategy_object.Order_Type = "STANDARD"
                 THEN standardOrder(w, trade_data, strategy_object, direction,
                                    FALSE, in.quote)
                 ELSE OCOorder(w, trade_data, strategy_object, direction, in.quote)
        w1 == built.w
    IN  IF built.kind # "built" THEN w1
        ELSE IF RUN_LIVE_TRADER
        THEN LET w2 == Log(w1, [op |-> "order_place", order |-> w1.order])
             IN  IF ~Placed(in.status_code)
                 THEN [w2 EXCEPT !.rejected =
                          insert_one(@, RejectedRecord(trade_data.Symbol, trade_data.Side,
                                                       trade_data.Strategy))]
                 ELSE LET b == Merge(w2.obj, [Order_ID |-> in.location,
                                              Account_Position |-> "Live",
                                              Order_Status |-> "QUEUED"])
                      IN  queueOrder([w2 EXCEPT !.obj = b], b)
        ELSE LET b == Merge(w1.obj, [Order_ID |-> PaperOrderId(in.rand),
                                     Account_Position |-> "Paper",
                                     Order_Status |-> "QUEUED"])
             IN  queueOrder([w1 EXCEPT !.obj = b], b)

\* line 137: the token check; the event records a call that passed it
sendOrder(w, trade_data, strategy_object, direction, in) ==
    IF ~in.tokenValid THEN checkTokenValidity(w, "sendOrder", FALSE)   \* line 137
    ELSE sendOrderBody(Log(checkTokenValidity(w, "sendOrder", TRUE),
                           [op |-> "sendOrder", trade_data |-> trade_data,
                            strategy_object |-> strategy_object,
                            direction |-> direction, in |-> in]),
                       trade_data, strategy_object, direction, in)

---------------------------------------------------------------------------
(* Tasks.addNewStrategy *)

NewStrategy(strategy, asset_type) ==
    [Active |-> TRUE, Order_Type |-> "STANDARD", Asset_Type |-> asset_type,
     Position_Size |-> 500, Position_Type |-> "LONG", account_id |-> account_id,
     Strategy |-> strategy]

addNewStrategy(w, strategy, asset_type) ==
    [w EXCEPT !.strategies =
        update_one_setOnInsert(@, [Strategy |-> strategy],
                               NewStrategy(strategy, asset_type))]

---------------------------------------------------------------------------
(* The periodic tasks: ApiTrader.updateAccountBalance, Tasks.checkOCOtriggers *)

\* cashAvailableForTrading of the account summary, in hundredths
LiquidationValues == {75050}

\* self.user.get("Liquidation_Value") after refreshAccountSummary: the value
\* just fetched, the one an earlier refresh left in self.user, or nothing
BalanceInputs ==
    {[tokenValid |-> t] : t \in BOOLEAN}
    \cup [tokenValid : BOOLEAN, Liquidation_Value : LiquidationValues]

\* line 116: int((liquidation_value * position_size_percent) / 100)
DynamicPositionSize(liquidation_value) == ((liquidation_value * 100) \div 100) \div 100

\* the size is written to every strategy, whichever account holds it
BalanceFilter_EveryAccount(doc) == TRUE

\* line 119
BalanceFilter(doc) == Matches(doc, [account_id |-> account_id])

\* lines 80-84: the account summary is fetched when the token check passes
refreshAccountSummary(w, in) ==
    LET w1 == checkTokenValidity(w, "refreshAccountSummary", in.tokenValid)
    IN  IF ~in.tokenValid THEN w1 ELSE Log(w1, [op |-> "getAccount"])

\* lines 102-125
updateAccountBalance(w0, in) ==
    LET w == refreshAccountSummary(w0, in)
    IN
    IF ~Has(in, "Liquidation_Value") THEN w
    ELSE LET dynamic_position_size == DynamicPositionSize(in.Liquidation_Value)
         IN  Log([w EXCEPT !.strategies =
                     [i \in DOMAIN @ |->
                        IF BalanceFilter(@[i])
                        THEN Merge(@[i], [Position_Size |-> dynamic_position_size])
                        ELSE @[i]]],
                 [op |-> "updateAccountBalance",
                  Position_Size |-> dynamic_position_size])

\* what getSpecificOrder answers for a bracket leg
ChildStatuses == {"FILLED", "CANCELED", "REJECTED", "WORKING"}

\* the keys of a dict in the order the loop takes them
RECURSIVE KeysInOrder(_)
KeysInOrder(ids) ==
    IF ids = {} THEN <<>>
    ELSE LET id == CHOOSE x \in ids : \A y \in ids : x <= y
         IN  <<id>> \o KeysInOrder(ids \ {id})

\* the position handed over as a CLOSE POSITION order
LegOrder_AsCloseOrder(position, order_id) ==
    Merge([Order_ID |-> order_id, Side |-> "SELL_TO_CLOSE",
           Direction |-> "CLOSE POSITION"], position)

\* tasks.py line 103: pushOrder is handed the position document in the place
\* of a queue entry (the leg's id names the call in the trace)
LegOrder(position, order_id) == Merge([Order_ID |-> order_id], position)

\* tasks.py lines 95-126 for one position
RECURSIVE checkOCOchildren(_, _, _, _)
checkOCOchildren(w0, position, order_ids, ins) ==
    IF order_ids = <<>> THEN w0
    ELSE
    LET order_id == Head(order_ids)
        spec_order == ins[order_id]
        new_status == spec_order.status
        \* line 97
        w == Log(w0, [op |-> "getSpecificOrder", order_id |-> order_id,
                      position |-> KeyOf(position), status |-> new_status])
        w1 == IF new_status = "FILLED"
              THEN pushOrder(w, LegOrder(position, order_id), spec_order,
                             "Reliable", "ok")
              ELSE IF new_status \in {"CANCELED", "REJECTED"}
              THEN LET other == AuditRecord(position, position.Order_Type, new_status)
                   IN  IF new_status = "REJECTED"
                       THEN [w EXCEPT !.rejected = insert_one(@, other)]
                       ELSE [w EXCEPT !.canceled = insert_one(@, other)]
              ELSE LET i == FirstMatch(w.open_positions, KeyOf(position))
                   IN  IF i = 0 THEN w
                       ELSE [w EXCEPT !.open_positions[i].childOrderStrategies[order_id]
                                         .Order_Status = new_status]
    IN  checkOCOchildren(w1, position, Tail(order_ids), ins)

\* tasks.py lines 91-126: a position without the child-order map raises
\* KeyError at line 93 and the handler ends the call
RECURSIVE checkOCOpositions(_, _, _)
checkOCOpositions(w, positions, ins) ==
    IF positions = <<>> THEN w
    ELSE LET position == Head(positions)
         IN  IF ~Has(position, "childOrderStrategies")
             THEN Raised(w, "checkOCOtriggers")
             ELSE checkOCOpositions(
                     checkOCOchildren(w, position,
                                      KeysInOrder(DOMAIN position.childOrderStrategies),
                                      ins),
                     Tail(positions), ins)

\* tasks.py lines 88-89
OCOpositions(w) == find(w.open_positions, [Trader |-> userName, Order_Type |-> "OCO"])

checkOCOtriggers(w, ins) ==
    checkOCOpositions(Log(w, [op |-> "checkOCOtriggers",
                              positions |-> Len(OCOpositions(w))]),
                      OCOpositions(w), ins)

\* one answer of the broker for every bracket leg the positions track
ChildAnswers(positions) ==
    LET ids == UNION {DOMAIN positions[i].childOrderStrategies
                        : i \in {j \in DOMAIN positions :
                                    Has(positions[j], "childOrderStrategies")}}
    IN  [ids -> {[status |-> st, price |-> p] : st \in ChildStatuses, p \in ExecPrices}]

---------------------------------------------------------------------------
(* ApiTrader.runTrader: one pass of the loop over trade_data *)

\* the signals of trade_data; an equity signal carries no option fields
Rows ==
    {[Symbol |-> sym, Strategy |-> st, Side |-> sd, Asset_Type |-> "EQUITY"]
        : sym \in Symbols, st \in StrategyNames, sd \in EquitySides}
    \cup
    {[Symbol |-> sym, Strategy |-> st, Side |-> sd, Asset_Type |-> "OPTION",
      Pre_Symbol |-> "SPY_092625P569", Exp_Date |-> "2025-09-26",
      Option_Type |-> "PUT"]
        : sym \in Symbols, st \in StrategyNames, sd \in Sides}

\* SELL_TO_CLOSE does not close a LONG position
ClosingPair_NoSellToClose(side, position_type) ==
    \/ side = "BUY" /\ position_type = "SHORT"
    \/ side = "SELL" /\ position_type = "LONG"
    \/ side = "BUY_TO_CLOSE" /\ position_type = "SHORT"

\* lines 483-490
ClosingPair(side, position_type) ==
    \/ side = "BUY" /\ position_type = "SHORT"
    \/ side = "SELL" /\ position_type = "LONG"
    \/ side = "SELL_TO_CLOSE" /\ position_type = "LONG"
    \/ side = "BUY_TO_CLOSE" /\ position_type = "SHORT"

\* lines 495-502
OpeningPair(side, position_type) ==
    \/ side = "BUY" /\ position_type = "LONG"
    \/ side = "SELL" /\ position_type = "SHORT"
    \/ side = "SELL_TO_OPEN" /\ position_type = "SHORT"
    \/ side = "BUY_TO_OPEN" /\ position_type = "LONG"

\* `symbol not in forbidden_symbols`: forbidden_symbols is the cursor of
\* documents, and a str never equals a document
SymbolInCursor(symbol, cursor) == \E i \in DOMAIN cursor : FALSE

\* the opening pairings are tried before the open position is looked at
Direction_OpensFirst(queued, open_position, side, position_type, symbol, forbidden_symbols) ==
    IF ~IsNone(queued) THEN "none"
    ELSE IF OpeningPair(side, position_type) THEN "OPEN POSITION"
    ELSE IF ~IsNone(open_position) /\ ClosingPair(side, position_type)
    THEN "CLOSE POSITION"
    ELSE "none"

\* the queue is not looked at
Direction_IgnoresQueued(queued, open_position, side, position_type, symbol, forbidden_symbols) ==
    IF ~IsNone(open_position)
    THEN IF ClosingPair(side, position_type) THEN "CLOSE POSITION" ELSE "none"
    ELSE IF OpeningPair(side, position_type) THEN "OPEN POSITION" ELSE "none"

\* lines 477-504: "none" when the signal is skipped
Direction(queued, open_position, side, position_type, symbol, forbidden_symbols) ==
    IF ~IsNone(queued) THEN "none"
    ELSE IF ~IsNone(open_position)
    THEN IF ClosingPair(side, position_type) THEN "CLOSE POSITION" ELSE "none"
    ELSE IF ~SymbolInCursor(symbol, forbidden_symbols)
    THEN IF OpeningPair(side, position_type) THEN "OPEN POSITION" ELSE "none"
    ELSE "none"

KeyFilter(row) ==
    [Trader |-> userName, Symbol |-> row.Symbol, Strategy |-> row.Strategy,
     account_id |-> account_id]

StrategyFilter(row) == [Strategy |-> row.Strategy, account_id |-> account_id]

\* line 440
forbidden_symbols == find(forbidden, [account_id |-> account_id])

runTraderRow(w, row, in) ==
    LET open_position == find_one(w.open_positions, KeyFilter(row))
        queued == find_one(w.queue, KeyFilter(row))
        found == find_one(w.strategies, StrategyFilter(row))
        w1 == IF IsNone(found) THEN addNewStrategy(w, row.Strategy, row.Asset_Type)
              ELSE w
        strategy_object == find_one(w1.strategies, StrategyFilter(row))
    IN  IF IsNone(strategy_object) THEN Raised(w1, "runTrader")   \* line 474
        ELSE
        LET position_type == strategy_object.Position_Type
            row1 == Put(row, "Position_Type", position_type)
            direction == Direction(queued, open_position, row.Side, position_type,
                                   row.Symbol, forbidden_symbols)
            \* what the pass found and decided (lines 449-506)
            w2 == Log(w1, [op |-> "row", Symbol |-> row.Symbol,
                           Strategy |-> row.Strategy, Side |-> row.Side,
                           queued |-> ~IsNone(queued),
                           open_position |-> ~IsNone(open_position),
                           position_type |-> position_type, direction |-> direction])
        IN  IF direction = "none" THEN w2
            ELSE sendOrder(w2, IF IsNone(open_position) THEN row1
                               ELSE Merge(row1, open_position),
                           strategy_object, direction, in)

---------------------------------------------------------------------------
(* The access token: Schwab.checkTokenValidity and the schwabdev Client *)

\* Client._access_token_timeout: the seconds an access token lives
ACCESS_TOKEN_TIMEOUT == 1800

\* checkTokenValidity line 71: a token with a minute or less left is refreshed
TokenMargin == 60

\* _update_access_token line 111: for i in range(3)
RefreshAttempts == 3

\* checkTokenValidity line 94: days_left <= 5
RefreshWarnDays == 5

\* checkTokenValidity line 102: timedelta(days=90)
RefreshLifeDays == 90

\* the last reading of time.time(), and the steps by which it advances
MaxTime == 3600
TimeSteps == {60, 840}

\* datetime.now().date(), counted in days
Date(t) == t \div (24 * 60 * 60)

\* what the broker answers to one POST of the token endpoint; the request
\* itself may raise (requests.post without a connection)
OAuthAnswers == {"ok", "refused", "raises"}

\* a token is named by the time the broker issued it
FirstTokens == [access_token |-> 0, refresh_token |-> 0,
                expires_in |-> ACCESS_TOKEN_TIMEOUT]

\* the user's Accounts[account_id] entry as the setup script stores it
FirstAccount(refresh_exp_date) ==
    [created_at |-> 0, expires_in |-> FirstTokens.expires_in,
     access_token |-> FirstTokens.access_token,
     refresh_token |-> FirstTokens.refresh_token,
     refresh_exp_date |-> refresh_exp_date]

\* Client._write_tokens_file's document (api.py lines 167-168)
TokensDocument(at_issued, rt_issued, token_dictionary) ==
    [access_token_issued |-> at_issued, refresh_token_issued |-> rt_issued,
     token_dictionary |-> token_dictionary]

\* Client._write_tokens_file: a failure to open the file is printed and the
\* file stays as it was
write_tokens_file(file, at_issued, rt_issued, token_dictionary, written) ==
    IF written THEN TokensDocument(at_issued, rt_issued, token_dictionary)
    ELSE file

\* Client._read_tokens_file: always a 3-tuple, (None, None, None) when the
\* file cannot be opened or parsed
read_tokens_file(file) ==
    IF IsNone(file) THEN <<NoDoc, NoDoc, NoDoc>>
    ELSE <<file.access_token_issued, file.refresh_token_issued,
           file.token_dictionary>>

\* Python's truth value of a tuple: false only for the empty tuple
Truthy(tuple) == Len(tuple) > 0

post_oauth_token(grant_type, code, answer) ==
    [op |-> "_post_oauth_token", grant_type |-> grant_type, code |-> code,
     answer |-> answer]

\* Client._update_access_token (api.py lines 109-127): up to three POSTs with
\* the refresh token of the file, the first accepted one is written to the
\* file; answers[i] is the broker's answer to the i-th POST
update_access_token(file, now, answers, written) ==
    LET old == read_tokens_file(file)                              \* line 110
        refresh_token_issued == old[2]
        token_dictionary_old == old[3]
        tried == {i \in 1..RefreshAttempts :
                     \A j \in 1..(i - 1) : answers[j] = "refused"}
        last == CHOOSE i \in tried : \A j \in tried : j <= i
        calls == [i \in 1..last |->
                     post_oauth_token("refresh_token",
                                      token_dictionary_old.refresh_token,
                                      answers[i])]
        new_td == [access_token |-> now,
                   refresh_token |-> token_dictionary_old.refresh_token,
                   expires_in |-> ACCESS_TOKEN_TIMEOUT]
    IN  IF IsNone(token_dictionary_old)                  \* line 112: None.get
        THEN [file |-> file, raised |-> TRUE, calls |-> <<>>]
        ELSE IF answers[last] = "raises"
        THEN [file |-> file, raised |-> TRUE, calls |-> calls]
        ELSE IF answers[last] = "ok"                     \* lines 113-123
        THEN [file |-> write_tokens_file(file, now, refresh_token_issued,
                                         new_td, written),
              raised |-> FALSE, calls |-> calls]
        ELSE [file |-> file, raised |-> FALSE, calls |-> calls]

\* Client._update_refresh_token (api.py lines 129-149): the operator
\* authorises in the browser and pastes the address; one POST
update_refresh_token(file, now, answer, written) ==
    LET call == <<post_oauth_token("authorization_code", now, answer)>>
        new_td == [access_token |-> now, refresh_token |-> now,
                   expires_in |-> ACCESS_TOKEN_TIMEOUT]
    IN  IF answer = "raises"
        THEN [file |-> file, raised |-> TRUE, calls |-> call]
        ELSE IF answer = "ok"
        THEN [file |-> write_tokens_file(file, now, now, new_td, written),
              raised |-> FALSE, calls |-> call]
        ELSE [file |-> file, raised |-> FALSE, calls |-> call]

\* what a call of checkTokenValidity leaves behind: the account entry, the
\* file, the calls it made and its value; exception_handler turns an
\* exception into the value None
Returned(account, file, calls, value) ==
    [users |-> account, tokens_file |-> file, value |-> value,
     calls |->
        calls
        \o (IF value = "None"
            THEN <<[op |-> "exception", in |-> "checkTokenValidity"]>>
            ELSE <<>>)
        \o <<[op |-> "return", of |-> "checkTokenValidity", value |-> value]>>]

\* what one call of checkTokenValidity meets: the broker's answers, whether
\* the tokens file can be written, the outcome of the authorisation
TokenInputs ==
    [answers : [1..RefreshAttempts -> OAuthAnswers], written : BOOLEAN,
     auth : OAuthAnswers]

\* Schwab.checkTokenValidity (src/schwabBot/__init__.py lines 56-108)
checkTokenValidityBody(account, file, current_time, in) ==
    LET token_valid_until == account.created_at + account.expires_in   \* 68
        upd == update_access_token(file, current_time, in.answers,
                                   in.written)                          \* 75
        token_data == read_tokens_file(upd.file)                        \* 76
        refreshed ==                                                 \* 78-86
            [account EXCEPT !.expires_in = token_data[3].expires_in,
                            !.access_token = token_data[3].access_token,
                            !.created_at = current_time]
        days_left == account.refresh_exp_date - Date(current_time)   \* 91-93
        auth == update_refresh_token(upd.file, current_time, in.auth,
                                     in.written)                        \* 95
        token_data2 == read_tokens_file(auth.file)                      \* 96
        reauthorised ==                                             \* 98-104
            [refreshed EXCEPT
                !.refresh_token = token_data2[3].refresh_token,
                !.refresh_exp_date = Date(current_time) + RefreshLifeDays]
    IN  IF current_time < token_valid_until - TokenMargin        \* lines 71-72
        THEN Returned(account, file, <<>>, "True")
        ELSE IF upd.raised
        THEN Returned(account, upd.file, upd.calls, "None")
        ELSE IF ~Truthy(token_data)                              \* lines 87-88
        THEN Returned(account, upd.file, upd.calls, "False")
        ELSE IF IsNone(token_data[3])                     \* line 78: None.get
        THEN Returned(account, upd.file, upd.calls, "None")
        ELSE IF days_left > RefreshWarnDays                          \* line 94
        THEN Returned(refreshed, upd.file, upd.calls, "True")
        ELSE IF auth.raised
        THEN Returned(refreshed, auth.file, upd.calls \o auth.calls, "None")
        ELSE IF ~Truthy(token_data2)                           \* lines 105-106
        THEN Returned(refreshed, auth.file, upd.calls \o auth.calls, "False")
        ELSE IF IsNone(token_data2[3])                   \* line 101: None[...]
        THEN Returned(refreshed, auth.file, upd.calls \o auth.calls, "None")
        ELSE Returned(reauthorised, auth.file, upd.calls \o auth.calls,
                      "True")                                       \* line 108

\* the token state of the specifications that take checkTokenValidity's
\* answer as an input
TokenAtRest ==
    /\ users = FirstAccount(RefreshWarnDays + 1)
    /\ tokens_file = TokensDocument(0, 0, FirstTokens)
    /\ unix_time = 0

---------------------------------------------------------------------------
(* The state machine *)

Commit(w) ==
    /\ strategies' = w.strategies
    /\ queue' = w.queue
    /\ open_positions' = w.open_positions
    /\ closed_positions' = w.closed_positions
    /\ rejected' = w.rejected
    /\ canceled' = w.canceled
    /\ obj' = w.obj
    /\ order' = w.order
    /\ trace' = w.trace

\* the collections outlive the process: closed_positions may hold the record
\* pushOrder wrote for an earlier round trip
EarlierRoundTrip ==
    [Symbol |-> "SPY", Strategy |-> "S1", Position_Size |-> 500,
     Position_Type |-> "LONG", Data_Integrity |-> "Reliable", Trader |-> userName,
     account_id |-> account_id, Asset_Type |-> "OPTION",
     Account_Position |-> "Paper", Order_Type |-> "STANDARD",
     Pre_Symbol |-> "SPY   250926P00569000", Exp_Date |-> "2025-09-26",
     Option_Type |-> "PUT", Qty |-> 40, Entry_Price |-> 12500, Entry_Date |-> 0,
     Exit_Price |-> 12350, Exit_Date |-> 0]

\* the strategies the operator may have configured
StrategyConfigs ==
    {[Active |-> TRUE, Order_Type |-> ot, Asset_Type |-> "OPTION",
      Position_Size |-> 500, Position_Type |-> pt, account_id |-> account_id,
      Strategy |-> st]
        : ot \in {"STANDARD", "OCO"}, pt \in {"LONG", "SHORT"}, st \in StrategyNames}

Init ==
    /\ RUN_LIVE_TRADER \in BOOLEAN
    /\ strategies \in {<<>>} \cup {<<c>> : c \in StrategyConfigs}
    /\ forbidden = <<>>
    /\ queue = <<>>
    /\ open_positions = <<>>
    /\ closed_positions \in {<<>>, <<EarlierRoundTrip>>}
    /\ rejected = <<>>
    /\ canceled = <<>>
    /\ obj = InitialObj
    /\ order = InitialOrder
    /\ pc = "idle"
    /\ clock = 0
    /\ isAlive = TRUE
    /\ tpc = "top"
    /\ frames = NoFrames
    /\ TokenAtRest
    /\ trace = <<>>

\* runTrader up to the loop: the token check, updateStatus, the user and
\* forbidden-symbol reads (lines 428-440)
RunTraderBegin(outcomes) ==
    /\ pc = "idle"
    /\ \/ /\ Commit(World)                        \* the token check fails
          /\ pc' = "idle"
       \/ /\ Commit(updateStatus(World, FALSE, <<>>))
          /\ pc' = "rows"
       \/ /\ \E ins \in PollInputSeqs(QueuedOrders(World), outcomes) :
                \E w \in {updateStatus(World, TRUE, ins)} : Commit(w)
          /\ pc' = "rows"
    /\ UNCHANGED <<users, tokens_file, unix_time, frames, RUN_LIVE_TRADER, forbidden, clock, isAlive, tpc>>

\* whether the pass for this signal reaches sendOrder
ReachesSendOrder(row) ==
    LET strategy_object == find_one(strategies, StrategyFilter(row))
        position_type == IF IsNone(strategy_object) THEN "LONG"
                         ELSE strategy_object.Position_Type
    IN  Direction(find_one(queue, KeyFilter(row)),
                  find_one(open_positions, KeyFilter(row)),
                  row.Side, position_type, row.Symbol, forbidden_symbols) # "none"

\* a pass that stops before sendOrder draws nothing from the environment, and
\* at MaxClock the only sendOrder left is the one the token check aborts
RowInputs(row) ==
    IF ReachesSendOrder(row) /\ clock < MaxClock THEN SendInputs
    ELSE {[tokenValid |-> FALSE]}

Builds(w) == \E i \in DOMAIN w.trace : w.trace[i].op = "quote"

\* one pass of `for row in trade_data` (lines 442-511)
RunTraderRow ==
    /\ pc = "rows"
    /\ \E row \in Rows :
         \E in \in RowInputs(row) :
            \E w \in {runTraderRow(World, row, in)} :
                /\ clock' = IF Builds(w) THEN clock + 1 ELSE clock
                /\ Commit(w)
                /\ pc' = IF \E i \in DOMAIN w.trace :
                               w.trace[i] = [op |-> "exception", in |-> "runTrader"]
                         THEN "idle" ELSE "rows"
    /\ UNCHANGED <<users, tokens_file, unix_time, frames, RUN_LIVE_TRADER, forbidden, isAlive, tpc>>

\* trade_data is exhausted
RunTraderEnd ==
    /\ pc = "rows"
    /\ pc' = "idle"
    /\ trace' = <<>>
    /\ UNCHANGED <<users, tokens_file, unix_time, frames, RUN_LIVE_TRADER, strategies, forbidden, queue, open_positions,
                   closed_positions, rejected, canceled, obj, order, clock,
                   isAlive, tpc>>

\* the operator switches a strategy on or off in the strategies collection
OperatorSetsActive ==
    /\ \E i \in DOMAIN strategies :
         strategies' = [strategies EXCEPT ![i].Active = ~@]
    /\ trace' = <<>>
    /\ UNCHANGED <<users, tokens_file, unix_time, frames, RUN_LIVE_TRADER, forbidden, queue, open_positions,
                   closed_positions, rejected, canceled, obj, order, pc, clock,
                   isAlive, tpc>>

\* the store takes every insert
Next ==
    \/ RunTraderBegin(StoreWorks)
    \/ RunTraderRow
    \/ RunTraderEnd
    \/ OperatorSetsActive

Spec == Init /\ [][Next]_vars

\* the store may fail an insert
NextStoreFaults ==
    \/ RunTraderBegin(InsertOutcomes)
    \/ RunTraderRow
    \/ RunTraderEnd
    \/ OperatorSetsActive

SpecStoreFaults == Init /\ [][NextStoreFaults]_vars

\* the operator has put the symbol on the account's forbidden list
ForbiddenDocs == {[Symbol |-> sym, account_id |-> account_id] : sym \in Symbols}

InitForbidden ==
    /\ RUN_LIVE_TRADER \in BOOLEAN
    /\ strategies \in {<<>>} \cup {<<c>> : c \in StrategyConfigs}
    /\ forbidden \in {<<f>> : f \in ForbiddenDocs}
    /\ queue = <<>>
    /\ open_positions = <<>>
    /\ closed_positions = <<>>
    /\ rejected = <<>>
    /\ canceled = <<>>
    /\ obj = InitialObj
    /\ order = InitialOrder
    /\ pc = "idle"
    /\ clock = 0
    /\ isAlive = TRUE
    /\ tpc = "top"
    /\ frames = NoFrames
    /\ TokenAtRest
    /\ trace = <<>>

SpecForbidden == InitForbidden /\ [][Next]_vars

\* Tasks.runTasks runs on its own thread, its steps between the trader's
\* (src/api_trader/__init__.py line 59)

\* the loop goes on whatever the flag says
LoopContinues_Always(alive) == TRUE

\* tasks.py line 184: while self.isAlive
LoopContinues(alive) == alive

\* a task without the decorator: the KeyError of its body reaches the loop
TaskOutcome_Undecorated(w, task) ==
    IF \E i \in DOMAIN w.trace : w.trace[i] = [op |-> "exception", in |-> task]
    THEN "KeyError" ELSE "returned"

\* tasks.py lines 33, 82 and src/api_trader/__init__.py line 101: the tasks are
\* wrapped in exception_handler, which returns None whether or not the body
\* raised
TaskOutcome(w, task) == "returned"

\* tasks.py lines 194-201: a KeyError clears the flag, any other exception is
\* logged
RunTasksCatch(alive, outcome) == IF outcome = "KeyError" THEN FALSE ELSE alive

\* the limit on the audit records the tasks write for bracket legs
MaxAudit == 2

\* the leg answers that make checkOCOtriggers write an audit record are drawn
\* while the audit stores are below MaxAudit
WithinAudit(ins) ==
    \/ Len(rejected) + Len(canceled) < MaxAudit
    \/ \A id \in DOMAIN ins : ins[id].status \notin {"CANCELED", "REJECTED"}

\* lines 184-189: the while test and the first task
CheckOCOtriggers ==
    /\ tpc = "top"
    /\ LoopContinues(isAlive)
    /\ \E ins \in ChildAnswers(OCOpositions(World)) :
          /\ WithinAudit(ins)
          /\ \E w \in {checkOCOtriggers(World, ins)} :
                /\ Commit(w)
                /\ isAlive' = RunTasksCatch(isAlive, TaskOutcome(w, "checkOCOtriggers"))
                /\ tpc' = IF TaskOutcome(w, "checkOCOtriggers") = "returned"
                          THEN "balance" ELSE "sleep"
    /\ UNCHANGED <<users, tokens_file, unix_time, frames, RUN_LIVE_TRADER, forbidden, pc, clock>>

\* line 190: the second task
UpdateAccountBalance ==
    /\ tpc = "balance"
    /\ \E in \in BalanceInputs :
          \E w \in {updateAccountBalance(World, in)} :
             /\ Commit(w)
             /\ isAlive' = RunTasksCatch(isAlive, TaskOutcome(w, "updateAccountBalance"))
    /\ tpc' = "sleep"
    /\ UNCHANGED <<users, tokens_file, unix_time, frames, RUN_LIVE_TRADER, forbidden, pc, clock>>

\* lines 203-205: time.sleep(selectSleep()) returns
Sleep ==
    /\ tpc = "sleep"
    /\ tpc' = "top"
    /\ UNCHANGED <<users, tokens_file, unix_time, frames, RUN_LIVE_TRADER, strategies, forbidden, queue, open_positions,
                   closed_positions, rejected, canceled, obj, order, pc, clock,
                   isAlive, trace>>

\* lines 184, 207-208: the while test fails and runTasks returns
RunTasksStop ==
    /\ tpc = "top"
    /\ ~LoopContinues(isAlive)
    /\ tpc' = "stopped"
    /\ trace' = <<>>
    /\ UNCHANGED <<users, tokens_file, unix_time, frames, RUN_LIVE_TRADER, strategies, forbidden, queue, open_positions,
                   closed_positions, rejected, canceled, obj, order, pc, clock,
                   isAlive>>

\* the owner of the instance clears the flag
Shutdown ==
    /\ isAlive
    /\ isAlive' = FALSE
    /\ trace' = <<[op |-> "shutdown"]>>
    /\ UNCHANGED <<users, tokens_file, unix_time, frames, RUN_LIVE_TRADER, strategies, forbidden, queue, open_positions,
                   closed_positions, rejected, canceled, obj, order, pc, clock, tpc>>

\* a second account of the same trader: its engine instance works on the same
\* collections and has left its own documents there
otherAccount == "A2"

\* the other account's config for the strategy
OtherConfig ==
    [Active |-> TRUE, Order_Type |-> "STANDARD", Asset_Type |-> "OPTION",
     Position_Size |-> 500, Position_Type |-> "LONG", account_id |-> otherAccount,
     Strategy |-> "S1"]

\* the order the other account's sendOrder has queued for the key
OtherQueued ==
    [Trader |-> userName, account_id |-> otherAccount, Symbol |-> "SPY",
     Strategy |-> "S1", Side |-> "BUY_TO_OPEN", Asset_Type |-> "OPTION",
     Position_Type |-> "LONG", Order_Type |-> "STANDARD",
     Direction |-> "OPEN POSITION", Pre_Symbol |-> "SPY   250926P00569000",
     Exp_Date |-> "2025-09-26", Option_Type |-> "PUT", Qty |-> 7,
     Position_Size |-> 500, Entry_Price |-> 70000, Entry_Date |-> 0,
     Order_ID |-> 1002, Account_Position |-> "Live", Order_Status |-> "QUEUED"]

\* the position the other account's pushOrder has opened for the key
OtherPosition ==
    [Symbol |-> "SPY", Strategy |-> "S1", Position_Size |-> 500,
     Position_Type |-> "LONG", Data_Integrity |-> "Reliable", Trader |-> userName,
     account_id |-> otherAccount, Asset_Type |-> "OPTION",
     Account_Position |-> "Live", Order_Type |-> "STANDARD",
     Pre_Symbol |-> "SPY   250926P00569000", Exp_Date |-> "2025-09-26",
     Option_Type |-> "PUT", Qty |-> 7, Entry_Price |-> 70000, Entry_Date |-> 0]

InitTwoAccounts ==
    /\ RUN_LIVE_TRADER \in BOOLEAN
    /\ strategies \in {<<OtherConfig>>} \cup {<<OtherConfig, c>> : c \in StrategyConfigs}
    /\ forbidden = <<>>
    /\ \/ queue = <<OtherQueued>> /\ open_positions = <<>>
       \/ queue = <<>> /\ open_positions = <<OtherPosition>>
    /\ closed_positions = <<>>
    /\ rejected = <<>>
    /\ canceled = <<>>
    /\ obj = InitialObj
    /\ order = InitialOrder
    /\ pc = "idle"
    /\ clock = 0
    /\ isAlive = TRUE
    /\ tpc = "top"
    /\ frames = NoFrames
    /\ TokenAtRest
    /\ trace = <<>>

\* the trader of this account on the shared collections
NextTwoAccounts ==
    \/ RunTraderBegin(StoreWorks)
    \/ RunTraderRow
    \/ RunTraderEnd

SpecTwoAccounts == InitTwoAccounts /\ [][NextTwoAccounts]_vars

\* the trader and its task thread; the strategies collection also holds the
\* other account's config
InitTasks ==
    /\ RUN_LIVE_TRADER \in BOOLEAN
    /\ strategies \in {<<>>} \cup {<<OtherConfig, c>> :
                                     c \in {x \in StrategyConfigs : x.Order_Type = "OCO"}}
    /\ forbidden = <<>>
    /\ queue = <<>>
    /\ open_positions = <<>>
    /\ closed_positions = <<>>
    /\ rejected = <<>>
    /\ canceled = <<>>
    /\ obj = InitialObj
    /\ order = InitialOrder
    /\ pc = "idle"
    /\ clock = 0
    /\ isAlive = TRUE
    /\ tpc = "top"
    /\ frames = NoFrames
    /\ TokenAtRest
    /\ trace = <<>>

NextTasks ==
    \/ RunTraderBegin(StoreWorks)
    \/ RunTraderRow
    \/ RunTraderEnd
    \/ CheckOCOtriggers
    \/ UpdateAccountBalance
    \/ Sleep

SpecTasks == InitTasks /\ [][NextTasks]_vars

\* a position the account opened in an earlier run and still holds
HeldPosition ==
    [Symbol |-> "SPY", Strategy |-> "S1", Position_Size |-> 500,
     Position_Type |-> "LONG", Data_Integrity |-> "Reliable", Trader |-> userName,
     account_id |-> account_id, Asset_Type |-> "OPTION",
     Account_Position |-> "Paper", Order_Type |-> "STANDARD",
     Pre_Symbol |-> "SPY   250926P00569000", Exp_Date |-> "2025-09-26",
     Option_Type |-> "PUT", Qty |-> 40, Entry_Price |-> 12500, Entry_Date |-> 0]

\* a freshly constructed instance on the collections of that earlier run
InitHoldsPosition ==
    /\ RUN_LIVE_TRADER \in BOOLEAN
    /\ strategies \in {<<c>> : c \in {x \in StrategyConfigs : x.Position_Type = "LONG"}}
    /\ forbidden = <<>>
    /\ queue = <<>>
    /\ open_positions = <<HeldPosition>>
    /\ closed_positions = <<>>
    /\ rejected = <<>>
    /\ canceled = <<>>
    /\ obj = InitialObj
    /\ order = InitialOrder
    /\ pc = "idle"
    /\ clock = 0
    /\ isAlive = TRUE
    /\ tpc = "top"
    /\ frames = NoFrames
    /\ TokenAtRest
    /\ trace = <<>>

NextHoldsPosition ==
    \/ RunTraderBegin(StoreWorks)
    \/ RunTraderRow
    \/ RunTraderEnd

SpecHoldsPosition == InitHoldsPosition /\ [][NextHoldsPosition]_vars

\* an OCO position whose entry was filled, without the map of its bracket
\* legs, as pushOrder builds it
BracketlessPosition ==
    [Symbol |-> "SPY", Strategy |-> "S1", Position_Size |-> 500,
     Position_Type |-> "LONG", Data_Integrity |-> "Reliable", Trader |-> userName,
     account_id |-> account_id, Asset_Type |-> "OPTION",
     Account_Position |-> "Live", Order_Type |-> "OCO",
     Pre_Symbol |-> "SPY   250926P00569000", Exp_Date |-> "2025-09-26",
     Option_Type |-> "PUT", Qty |-> 40, Entry_Price |-> 12500, Entry_Date |-> 0]

\* the same position with the map extractOCOchildren yields for its two legs,
\* the document checkOCOtriggers reads
BracketPosition ==
    Merge(BracketlessPosition,
          extractOCOchildren(
             [childOrderStrategies |->
                 <<[orderStrategyType |-> "OCO",
                    childOrderStrategies |-> <<TakeProfitChild, StopLossChild>>]>>]))

\* the tasks thread while no signal arrives
InitRunTasks ==
    /\ RUN_LIVE_TRADER = TRUE
    /\ strategies \in {<<OtherConfig, c>> :
                          c \in {x \in StrategyConfigs : x.Order_Type = "OCO"}}
    /\ forbidden = <<>>
    /\ queue = <<>>
    /\ open_positions \in {<<>>, <<BracketlessPosition>>, <<BracketPosition>>}
    /\ closed_positions = <<>>
    /\ rejected = <<>>
    /\ canceled = <<>>
    /\ obj = InitialObj
    /\ order = InitialOrder
    /\ pc = "idle"
    /\ clock = 0
    /\ isAlive = TRUE
    /\ tpc = "top"
    /\ frames = NoFrames
    /\ TokenAtRest
    /\ trace = <<>>

RunTasks ==
    \/ CheckOCOtriggers
    \/ UpdateAccountBalance
    \/ Sleep
    \/ RunTasksStop

NextRunTasks ==
    \/ RunTasks
    \/ Shutdown

SpecRunTasks == InitRunTasks /\ [][NextRunTasks]_vars

\* the steps of the thread are the steps that move the loop to another
\* position: each of RunTasks' actions changes tpc, nothing else does, and one
\* of them is enabled at every position but "stopped"
Positions == {"top", "balance", "sleep", "stopped"}
RunTasksMoves == tpc # "stopped" /\ tpc' \in Positions \ {tpc}

\* the thread is scheduled again and again, and time.sleep returns: weak
\* fairness of the thread's steps
FairRunTasks == SpecRunTasks /\ WF_tpc(RunTasksMoves)

---------------------------------------------------------------------------
(* Properties *)

Range(f) == {f[i] : i \in DOMAIN f}

\* the events of one kind among those of a step
Events(tr, op) == {e \in Range(tr) : e.op = op}

Keys(coll) == {KeyOf(d) : d \in Range(coll)}

\* the documents appended to a collection by a step
Added(before, after) == {after[i] : i \in (Len(before) + 1)..Len(after)}

\* how many documents of a collection carry a key
Count(coll, key) == Cardinality({i \in DOMAIN coll : KeyOf(coll[i]) = key})

\* C1 as stated: no (trader, symbol, strategy) key is in queue and in
\* open_positions at the same time
C1_NeverQueuedAndOpen == Keys(queue) \cap Keys(open_positions) = {}

\* C1 amended: a key is in queue and in open_positions at the same time only
\* while the queue entry is the CLOSE POSITION order for that open position; a
\* key queued with OPEN POSITION has no open position
C1_QueuedWhileOpenIsClose ==
    \A q \in Range(queue) :
        KeyOf(q) \in Keys(open_positions) => q.Direction = "CLOSE POSITION"

C1_Witness ==
    \E q \in Range(queue) :
        /\ q.Direction = "CLOSE POSITION"
        /\ q.Order_Status = "QUEUED"
        /\ KeyOf(q) \in Keys(open_positions)

\* C2 as stated: after pushOrder has completed for a queued order, its key is
\* in exactly one of open_positions (OPEN POSITION) and closed_positions
\* (CLOSE POSITION), and not in queue
C2_ExactlyOneStore ==
    \A e \in Events(trace, "push.send") :
        /\ KeyOf(e) \notin Keys(queue)
        /\ IF e.Direction = "OPEN POSITION"
           THEN KeyOf(e) \in Keys(open_positions)
                /\ KeyOf(e) \notin Keys(closed_positions)
           ELSE KeyOf(e) \in Keys(closed_positions)
                /\ KeyOf(e) \notin Keys(open_positions)

\* C2 amended: after pushOrder has completed for a queued order, its key is not
\* in queue; for OPEN POSITION it is in open_positions (and may also be in
\* closed_positions, which keeps the earlier round trips of the key); for
\* CLOSE POSITION it is not in open_positions and closed_positions holds the
\* record just written for it
C2_ResolvedIntoItsStore ==
    \A e \in Events(trace, "push.send") :
        /\ KeyOf(e) \notin Keys(queue)
        /\ IF e.Direction = "OPEN POSITION"
           THEN Cardinality({i \in DOMAIN open_positions :
                                KeyOf(open_positions[i]) = KeyOf(e)}) = 1
           ELSE /\ KeyOf(e) \notin Keys(open_positions)
                /\ \E r \in Range(closed_positions) :
                      KeyOf(r) = KeyOf(e) /\ r.Exit_Date = clock

C2_Witness ==
    \E e \in Events(trace, "push.send") :
        /\ e.Direction = "OPEN POSITION"
        /\ KeyOf(e) \in Keys(open_positions)
        /\ KeyOf(e) \in Keys(closed_positions)

\* C3 as stated: with Active = false, sendOrder places no order with the
\* broker and queues nothing, whether the direction is OPEN POSITION or CLOSE
\* POSITION
C3_InactiveNeverSubmits ==
    \A e \in Events(trace, "sendOrder") :
        ~e.strategy_object.Active =>
            /\ Events(trace, "order_place") = {}
            /\ KeyOf(e.trade_data) \notin Keys(queue)

\* C3, the part standardOrder keeps: with Active = false, sendOrder places no
\* OPEN POSITION order with the broker and queues no OPEN POSITION entry
C3_InactiveNeverOpens ==
    \A e \in Events(trace, "sendOrder") :
        (~e.strategy_object.Active /\ e.direction = "OPEN POSITION") =>
            /\ Events(trace, "order_place") = {}
            /\ KeyOf(e.trade_data) \notin Keys(queue)

C3_Witness ==
    \E e \in Events(trace, "sendOrder") :
        /\ ~e.strategy_object.Active
        /\ e.direction = "OPEN POSITION"
        /\ Events(trace, "quote") # {}
        /\ Events(trace, "exception") = {}

\* the price standardOrder took from the quote it was given
PriceTaken(e) ==
    QuotedPrice(e.trade_data.Side, e.in.quote, e.strategy_object.Order_Type = "OCO")

\* units of the underlying one unit of quantity stands for
UnitsPer(asset_type) == IF asset_type = "EQUITY" THEN 1 ELSE 100

\* q = floor(budget / per / price), the price in 1/PriceUnit (per divides
\* PriceUnit, so budget * PriceUnit / per is exact)
IsFloorOf(q, budget, per, price) ==
    /\ q * price <= (budget * PriceUnit) \div per
    /\ (budget * PriceUnit) \div per < (q + 1) * price

\* C4: an OPEN POSITION order that standardOrder builds has quantity
\* floor(Position_Size / price) for EQUITY and floor((Position_Size / 100) /
\* price) for OPTION; when that quantity is not positive nothing is built: no
\* order_place call, and queue and rejected stay as they were
C4_OpenQuantity ==
    [][\A e \in Events(trace', "sendOrder") :
          (e.direction = "OPEN POSITION" /\ Events(trace', "quote") # {}) =>
             LET budget == e.strategy_object.Position_Size
                 per == UnitsPer(obj'.Asset_Type)
                 price == PriceTaken(e)
             IN  IF budget * PriceUnit < per * price
                 THEN /\ Events(trace', "order_place") = {}
                      /\ queue' = queue
                      /\ rejected' = rejected
                 ELSE e.strategy_object.Active =>
                        /\ IsFloorOf(obj'.Qty, budget, per, price)
                        /\ order'.orderLegCollection[1].quantity = obj'.Qty
                        /\ \/ Events(trace', "order_place") # {}
                           \/ obj' \in Range(queue')]_vars

C4_Witness ==
    \E e \in Events(trace, "sendOrder") :
        /\ e.direction = "OPEN POSITION"
        /\ Events(trace, "quote") # {}
        /\ obj \in Range(queue)
        /\ obj.Asset_Type = "OPTION"
        /\ obj.Qty = 40
        /\ PriceTaken(e) = 12346

\* C5: an EQUITY signal (no option fields) with an opening pairing, an active
\* strategy and floor(budget / ask) > 0, handled by sendOrder with a valid
\* token (and, in Live, accepted by the broker), leaves a queue entry for the
\* key with Direction OPEN POSITION, Order_Status QUEUED, Qty = floor(budget /
\* ask) and Entry_Price = ask
C5_EquityOpenIsQueued ==
    \A e \in Events(trace, "sendOrder") :
        (/\ e.trade_data.Asset_Type = "EQUITY"
         /\ ~Has(e.trade_data, "Pre_Symbol")
         /\ e.trade_data.Side = "BUY"
         /\ e.direction = "OPEN POSITION"
         /\ e.strategy_object.Active
         /\ (e.strategy_object.Position_Size * PriceUnit) \div e.in.quote.askPrice > 0
         /\ RUN_LIVE_TRADER => e.in.status_code \in {200, 201})
        => \E q \in Range(queue) :
              /\ KeyOf(q) = KeyOf(e.trade_data)
              /\ q.Direction = "OPEN POSITION"
              /\ q.Order_Status = "QUEUED"
              /\ q.Qty = (e.strategy_object.Position_Size * PriceUnit)
                            \div e.in.quote.askPrice
              /\ q.Entry_Price = e.in.quote.askPrice

Answers(e) == Has(e.resp, "status") /\ e.resp.orderId = e.queue_order.Order_ID

Filled(e) == Answers(e) /\ e.resp.status = "FILLED"

\* C7: a poll that finds the broker reporting the status the queue record
\* already carries from an earlier poll leaves the record as it is and adds
\* nothing to rejected or canceled
C7_PollIdempotent ==
    [][\A e \in Events(trace', "get_order") :
          (Answers(e) /\ e.resp.status = e.queue_order.Order_Status) =>
             /\ e.queue_order \in Range(queue)
             /\ e.queue_order \in Range(queue')
             /\ Count(queue', KeyOf(e.queue_order)) = 1
             /\ \A r \in Added(rejected, rejected') \cup Added(canceled, canceled') :
                   KeyOf(r) # KeyOf(e.queue_order)]_vars

C7_Witness ==
    \E e \in Events(trace, "get_order") :
        /\ Answers(e)
        /\ e.resp.status = "WORKING"
        /\ e.queue_order.Order_Status = "WORKING"
        /\ e.queue_order \in Range(queue)

\* C8: when the broker reports FILLED for a queue entry that is not OCO and has
\* Direction CLOSE POSITION, the poll deletes the key's open position, appends
\* exactly one record to closed_positions with the Qty, Entry_Price and
\* Entry_Date of that open position, deletes the queue entry and sends one
\* notification
C8_FilledClose ==
    [][\A e \in Events(trace', "get_order") :
          (/\ Filled(e)
           /\ e.queue_order.Direction = "CLOSE POSITION"
           /\ e.queue_order.Order_Type # "OCO") =>
             LET key == KeyOf(e.queue_order)
                 position == find_one(open_positions, key)
             IN  /\ ~IsNone(position)
                 /\ key \notin Keys(open_positions')
                 /\ SubSeq(closed_positions', 1, Len(closed_positions)) = closed_positions
                 /\ Count(closed_positions', key) = Count(closed_positions, key) + 1
                 /\ \A r \in Added(closed_positions, closed_positions') :
                       KeyOf(r) = key =>
                          /\ r.Qty = position.Qty
                          /\ r.Entry_Price = position.Entry_Price
                          /\ r.Entry_Date = position.Entry_Date
                 /\ key \notin Keys(queue')
                 /\ Cardinality({i \in DOMAIN trace' :
                                    /\ trace'[i].op = "push.send"
                                    /\ KeyOf(trace'[i]) = key}) = 1]_vars

C8_Witness ==
    \E e \in Events(trace, "get_order") :
        /\ Filled(e)
        /\ e.queue_order.Direction = "CLOSE POSITION"
        /\ e.queue_order.Order_Type = "STANDARD"
        /\ Events(trace, "push.send") # {}
        /\ \E r \in Range(closed_positions) :
              /\ KeyOf(r) = KeyOf(e.queue_order)
              /\ r.Entry_Date < r.Exit_Date
              /\ r.Exit_Date = clock

\* C9: when the broker answers an error ("not found") for a queued order, the
\* same poll resolves the order from the queue record: its stored price
\* (Entry_Price for OPEN POSITION, Exit_Price for CLOSE POSITION), rounded as
\* pushOrder rounds every price, and its Qty; the position record carries
\* Data_Integrity "Assumed" in Live and "Reliable" in Paper.  A position
\* resolved from a FILLED answer carries "Reliable"
C9_NotFoundResolved ==
    \A e \in Events(trace, "get_order") :
        LET queue_order == e.queue_order
            key == KeyOf(queue_order)
            marker == IF Has(e.resp, "error")
                      THEN IF RUN_LIVE_TRADER THEN "Assumed" ELSE "Reliable"
                      ELSE "Reliable"
        IN  /\ Has(e.resp, "error") =>
                /\ key \notin Keys(queue)
                /\ IF queue_order.Direction = "OPEN POSITION"
                   THEN \E p \in Range(open_positions) :
                           /\ KeyOf(p) = key
                           /\ p.Entry_Price = RoundFill(queue_order.Entry_Price)
                           /\ p.Qty = queue_order.Qty
                   ELSE \E r \in Range(closed_positions) :
                           /\ KeyOf(r) = key
                           /\ r.Exit_Date = clock
                           /\ r.Exit_Price = RoundFill(queue_order.Exit_Price)
                           /\ r.Qty = queue_order.Qty
            /\ (Has(e.resp, "error") \/ Filled(e)) =>
                  IF queue_order.Direction = "OPEN POSITION"
                  THEN \E p \in Range(open_positions) :
                          KeyOf(p) = key /\ p.Data_Integrity = marker
                  ELSE \E r \in Range(closed_positions) :
                          /\ KeyOf(r) = key
                          /\ r.Exit_Date = clock
                          /\ r.Data_Integrity = marker

C9_Witness ==
    /\ RUN_LIVE_TRADER
    /\ \E e \in Events(trace, "get_order") :
          /\ Has(e.resp, "error")
          /\ e.queue_order.Direction = "CLOSE POSITION"
          /\ \E r \in Range(closed_positions) :
                /\ r.Exit_Date = clock
                /\ r.Data_Integrity = "Assumed"
                /\ r.Exit_Price # e.queue_order.Entry_Price

\* C10: for a FILLED OCO order whose snapshot nests two child orders,
\* extractOCOchildren returns a map with exactly two entries, keyed by the
\* children's order ids, each with Side, Exit_Price, Order_Status and
\* Exit_Type, where Exit_Type is STOP LOSS exactly when the child carries a
\* stopPrice and TAKE PROFIT otherwise
C10_ChildMap ==
    \A e \in Events(trace, "get_order") :
        (Filled(e) /\ e.queue_order.Order_Type = "OCO") =>
            LET children == e.resp.childOrderStrategies[1].childOrderStrategies
            IN  (Len(children) = 2 /\ children[1].orderId # children[2].orderId) =>
                  \E x \in Events(trace, "extractOCOchildren") :
                     /\ x.Order_ID = e.queue_order.Order_ID
                     /\ DOMAIN x.children = {children[1].orderId, children[2].orderId}
                     /\ Cardinality(DOMAIN x.children) = 2
                     /\ \A i \in DOMAIN children :
                          LET child == children[i]
                              entry == x.children[child.orderId]
                          IN  /\ DOMAIN entry = {"Side", "Exit_Price", "Order_Status",
                                                 "Exit_Type"}
                              /\ entry.Side = child.orderLegCollection[1].instruction
                              /\ entry.Order_Status = child.status
                              /\ entry.Exit_Type = "STOP LOSS" <=> Has(child, "stopPrice")
                              /\ entry.Exit_Type = "TAKE PROFIT" <=> ~Has(child, "stopPrice")
                              /\ entry.Exit_Price = IF Has(child, "stopPrice")
                                                    THEN child.stopPrice ELSE child.price

C10_Witness ==
    \E x \in Events(trace, "extractOCOchildren") :
        /\ Cardinality(DOMAIN x.children) = 2
        /\ \E id \in DOMAIN x.children : x.children[id].Exit_Type = "STOP LOSS"
        /\ \E id \in DOMAIN x.children : x.children[id].Exit_Type = "TAKE PROFIT"

\* C11 as stated: once a FILLED OCO order with Direction OPEN POSITION has been
\* resolved, the open position of its key carries the child-order map that
\* extractOCOchildren took from the broker's snapshot
C11_OpenPositionCarriesChildren ==
    \A e \in Events(trace, "get_order") :
        (/\ Filled(e)
         /\ e.queue_order.Order_Type = "OCO"
         /\ e.queue_order.Direction = "OPEN POSITION"
         /\ \E s \in Events(trace, "push.send") : KeyOf(s) = KeyOf(e.queue_order)) =>
            \E x \in Events(trace, "extractOCOchildren") :
                /\ x.Order_ID = e.queue_order.Order_ID
                /\ \E p \in Range(open_positions) :
                      /\ KeyOf(p) = KeyOf(e.queue_order)
                      /\ Has(p, "childOrderStrategies")
                      /\ p.childOrderStrategies = x.children

\* the price pushOrder is handed for a polled order: the execution price of the
\* broker's snapshot, or the queue record's own price when the order is unknown
RawFillPrice(e) ==
    IF Has(e.resp, "error")
    THEN (IF e.queue_order.Direction = "OPEN POSITION"
          THEN e.queue_order.Entry_Price ELSE e.queue_order.Exit_Price)
    ELSE e.resp.orderActivityCollection[1].executionLegs[1].price

\* p rounded to 4 decimal places when p < 1 and to 2 decimal places when p >= 1
RoundedByRule(p) ==
    IF p < PriceUnit
    THEN RoundDiv(p, PriceUnit \div 10000) * (PriceUnit \div 10000)
    ELSE RoundDiv(p, PriceUnit \div 100) * (PriceUnit \div 100)

\* C12 as stated: the limit price standardOrder writes into the order and the
\* fill price pushOrder stores are both the price rounded to 4 decimal places
\* when it is below 1 and to 2 decimal places when it is 1 or more
C12_PricesRoundedByRule ==
    /\ \A e \in Events(trace, "sendOrder") :
          Events(trace, "quote") # {} => order.price = RoundedByRule(PriceTaken(e))
    /\ \A e \in Events(trace, "get_order") :
          ((Has(e.resp, "error") \/ Filled(e))
           /\ \E s \in Events(trace, "push.send") : KeyOf(s) = KeyOf(e.queue_order)) =>
             IF e.queue_order.Direction = "OPEN POSITION"
             THEN \E p \in Range(open_positions) :
                     /\ KeyOf(p) = KeyOf(e.queue_order)
                     /\ p.Entry_Price = RoundedByRule(RawFillPrice(e))
             ELSE \E r \in Range(closed_positions) :
                     /\ KeyOf(r) = KeyOf(e.queue_order)
                     /\ r.Exit_Date = clock
                     /\ r.Exit_Price = RoundedByRule(RawFillPrice(e))

\* C12, the part pushOrder keeps: the stored fill price follows the rule
C12_FillRoundedByRule ==
    \A e \in Events(trace, "get_order") :
        ((Has(e.resp, "error") \/ Filled(e))
         /\ \E s \in Events(trace, "push.send") : KeyOf(s) = KeyOf(e.queue_order)) =>
           IF e.queue_order.Direction = "OPEN POSITION"
           THEN \E p \in Range(open_positions) :
                   /\ KeyOf(p) = KeyOf(e.queue_order)
                   /\ p.Entry_Price = RoundedByRule(RawFillPrice(e))
           ELSE \E r \in Range(closed_positions) :
                   /\ KeyOf(r) = KeyOf(e.queue_order)
                   /\ r.Exit_Date = clock
                   /\ r.Exit_Price = RoundedByRule(RawFillPrice(e))

\* the queue entries of this account for the key of a signal
QueuedFor(coll, r) ==
    {q \in Range(coll) : KeyOf(q) = KeyOf(r) /\ q.account_id = account_id}

\* the open positions of this account for the key of a signal
OpenFor(coll, r) ==
    {p \in Range(coll) : KeyOf(p) = KeyOf(r) /\ p.account_id = account_id}

\* C13: a signal whose key has a queue entry when runTrader evaluates it is
\* passed over: no quote is asked, no order is built or placed, and queue,
\* rejected and the builder's dicts stay as they are; the queue never holds
\* more than one order per key, however often a cycle repeats the key
C13_QueuedSignalSkipped ==
    [][/\ \A r \in Events(trace', "row") :
             QueuedFor(queue, r) # {} =>
                /\ trace' = <<r>>
                /\ r.direction = "none"
                /\ queue' = queue
                /\ rejected' = rejected
                /\ order' = order
                /\ obj' = obj
       /\ \A q \in Range(queue') : Count(queue', KeyOf(q)) = 1]_vars

\* a signal is passed over while the order for its key waits in the queue
C13_Witness ==
    /\ pc = "rows"
    /\ \E r \in Events(trace, "row") :
          /\ r.queued
          /\ r.direction = "none"
          /\ OpeningPair(r.Side, r.position_type)
          /\ \E q \in QueuedFor(queue, r) :
                q.Order_Status = "QUEUED" /\ q.Direction = "OPEN POSITION"

\* the (side, position type) pairings that close and that open a position
ClosingPairings ==
    {<<"BUY", "SHORT">>, <<"SELL", "LONG">>, <<"SELL_TO_CLOSE", "LONG">>,
     <<"BUY_TO_CLOSE", "SHORT">>}
OpeningPairings ==
    {<<"BUY", "LONG">>, <<"SELL", "SHORT">>, <<"SELL_TO_OPEN", "SHORT">>,
     <<"BUY_TO_OPEN", "LONG">>}

\* the config of this account for the strategy of a signal
ConfigFor(coll, r) ==
    CHOOSE c \in Range(coll) : c.Strategy = r.Strategy /\ c.account_id = account_id

\* the direction the pairings give a signal whose key is not queued
ExpectedDirection(open, side, position_type) ==
    IF open
    THEN IF <<side, position_type>> \in ClosingPairings THEN "CLOSE POSITION" ELSE "none"
    ELSE IF <<side, position_type>> \in OpeningPairings THEN "OPEN POSITION" ELSE "none"

C15_ForbiddenNeverOpened ==
    \A f \in Range(forbidden) :
        f.account_id = account_id =>
           /\ \A e \in Events(trace, "sendOrder") :
                 ~(e.trade_data.Symbol = f.Symbol /\ e.direction = "OPEN POSITION")
           /\ \A q \in Range(queue) :
                 ~(q.Symbol = f.Symbol /\ q.Direction = "OPEN POSITION")

\* the config a strategy met for the first time is given
DefaultConfig(c) ==
    /\ c.Active = TRUE
    /\ c.Order_Type = "STANDARD"
    /\ c.Position_Size = 500
    /\ c.Position_Type = "LONG"

\* the configs of this account for a strategy name
ConfigsOf(coll, strategy) ==
    {c \in Range(coll) : c.Strategy = strategy /\ c.account_id = account_id}

\* C16 as stated: a pass of runTrader over a signal never fails for want of a
\* config: when the signal is evaluated this account has a config for the
\* signal's strategy, created with the defaults if it had none (also when
\* another account holds a config of that name), and no config that existed
\* is changed
C16_ConfigForThisAccount ==
    [][/\ pc = "rows" =>
             [op |-> "exception", in |-> "runTrader"] \notin Range(trace')
       /\ \A r \in Events(trace', "row") :
             /\ ConfigsOf(strategies', r.Strategy) # {}
             /\ ConfigsOf(strategies, r.Strategy) = {} =>
                   \A c \in ConfigsOf(strategies', r.Strategy) : DefaultConfig(c)
             /\ Len(strategies') >= Len(strategies)
             /\ SubSeq(strategies', 1, Len(strategies)) = strategies]_vars

\* C16, the part addNewStrategy keeps where no other account holds the name:
\* the config is created with the defaults and no existing config is changed
C16_ConfigCreatedWithDefaults ==
    [][\A r \in Events(trace', "row") :
             /\ ConfigsOf(strategies', r.Strategy) # {}
             /\ ConfigsOf(strategies, r.Strategy) = {} =>
                   \A c \in ConfigsOf(strategies', r.Strategy) : DefaultConfig(c)
             /\ Len(strategies') >= Len(strategies)
             /\ SubSeq(strategies', 1, Len(strategies)) = strategies]_vars

\* the fields of a config other than its position size
ConfigFrame(c) == [k \in DOMAIN c \ {"Position_Size"} |-> c[k]]

\* C17: no step of the engine (runTrader with updateStatus, sendOrder and
\* pushOrder, checkOCOtriggers, updateAccountBalance) changes Active,
\* Order_Type, Position_Type or any field but Position_Size of a config that
\* exists, or removes a config; Position_Size is changed by
\* updateAccountBalance alone, and only in the configs of its own account
C17_ConfigsOnlyResized ==
    [][/\ Len(strategies') >= Len(strategies)
       /\ \A i \in DOMAIN strategies :
             /\ ConfigFrame(strategies'[i]) = ConfigFrame(strategies[i])
             /\ strategies'[i].Position_Size # strategies[i].Position_Size =>
                   /\ strategies[i].account_id = account_id
                   /\ \E e \in Events(trace', "updateAccountBalance") :
                         strategies'[i].Position_Size = e.Position_Size]_vars

\* the balance recompute has resized this account's config and left the other
\* account's as it was
C17_Witness ==
    /\ Events(trace, "updateAccountBalance") # {}
    /\ \E c \in Range(strategies) :
          c.account_id = account_id /\ c.Position_Size = 750 /\ c.Order_Type = "OCO"
    /\ \E c \in Range(strategies) :
          c.account_id = otherAccount /\ c.Position_Size = 500

\* what sendOrder leaves behind in Live mode once the broker has answered
\* order_place: with `queued` the order is in the queue under the id of the
\* Location header and nothing is added to rejected, without it exactly one
\* REJECTED record is added and the queue is as it was
LiveOutcome(e, queued, q0, q1, rej0, rej1) ==
    IF queued
    THEN /\ \E q \in Range(q1) :
               /\ KeyOf(q) = KeyOf(e.trade_data)
               /\ q.Order_Status = "QUEUED"
               /\ q.Order_ID = e.in.location
               /\ q.Account_Position = "Live"
         /\ Count(q1, KeyOf(e.trade_data)) = 1
         /\ rej1 = rej0
    ELSE /\ q1 = q0
         /\ Len(rej1) = Len(rej0) + 1
         /\ SubSeq(rej1, 1, Len(rej0)) = rej0
         /\ rej1[Len(rej1)].Order_Status = "REJECTED"
         /\ KeyOf(rej1[Len(rej1)]) = KeyOf(e.trade_data)

\* C18 as stated: in Live mode sendOrder queues the order exactly when the
\* broker's status is 2xx, and for every other status inserts one REJECTED
\* record and leaves the queue alone
C18_QueuedIff2xx ==
    [][\A e \in Events(trace', "sendOrder") :
          (RUN_LIVE_TRADER /\ Events(trace', "order_place") # {}) =>
             LiveOutcome(e, e.in.status_code \in 200..299,
                         queue, queue', rejected, rejected')]_vars

\* C18, what sendOrder does: in Live mode it queues the order exactly when the
\* broker's status is 200 or 201; for every other status, the other 2xx
\* among them, it inserts one REJECTED record and leaves the queue alone
C18_QueuedIff200Or201 ==
    [][\A e \in Events(trace', "sendOrder") :
          (RUN_LIVE_TRADER /\ Events(trace', "order_place") # {}) =>
             LiveOutcome(e, e.in.status_code \in {200, 201},
                         queue, queue', rejected, rejected')]_vars

\* an order the broker answered with 204 has been recorded as rejected
C18_Witness ==
    /\ RUN_LIVE_TRADER
    /\ Events(trace, "order_place") # {}
    /\ \E e \in Events(trace, "sendOrder") :
          /\ e.in.status_code = 204
          /\ \E r \in Range(rejected) :
                KeyOf(r) = KeyOf(e.trade_data) /\ r.Order_Status = "REJECTED"
          /\ KeyOf(e.trade_data) \notin Keys(queue)

\* C19: the queue never holds two records with the same (trader, symbol,
\* strategy), so never two for a key within an account; when sendOrder queues
\* an order for a key that has a record, that record is replaced by the new
\* order and the queue grows only when the key had none
C19_OneRecordPerKey ==
    [][/\ \A q \in Range(queue') : Count(queue', KeyOf(q)) = 1
       /\ \A e \in Events(trace', "sendOrder") :
             queue' # queue =>
                /\ Len(queue') = IF KeyOf(e.trade_data) \in Keys(queue)
                                 THEN Len(queue) ELSE Len(queue) + 1
                /\ \A q \in Range(queue') :
                      KeyOf(q) = KeyOf(e.trade_data) =>
                         /\ q.Order_Status = "QUEUED"
                         /\ q.Order_ID = obj'.Order_ID
                         /\ q.Qty = obj'.Qty
                         /\ q.Direction = e.direction]_vars

\* the first order of the account has taken the place of the record the key
\* had in the queue
C19_Witness ==
    /\ clock = 1
    /\ open_positions = <<>>
    /\ Events(trace, "sendOrder") # {}
    /\ Len(queue) = 1
    /\ queue[1].Order_ID # OtherQueued.Order_ID
    /\ queue[1].Qty = obj.Qty
    /\ KeyOf(queue[1]) = KeyOf(OtherQueued)

\* C20 as stated: no step of this account's engine overwrites or deletes a
\* queue entry or an open position of the other account, or closes a position
\* with the quantity and entry price of the other account's position
C20_OtherAccountUntouched ==
    [][/\ \A d \in Range(queue) :
             d.account_id # account_id => d \in Range(queue')
       /\ \A p \in Range(open_positions) :
             p.account_id # account_id => p \in Range(open_positions')
       /\ \A r \in Added(closed_positions, closed_positions') :
             \E p \in Range(open_positions) :
                /\ p.account_id = account_id
                /\ KeyOf(p) = KeyOf(r)
                /\ p.Qty = r.Qty
                /\ p.Entry_Price = r.Entry_Price]_vars

\* the documents of a collection that carry a key, in the collection's order
OfKey(coll, key) == SelectSeq(coll, LAMBDA d : KeyOf(d) = key)

\* C21: when a poll finds the broker reporting CANCELED or REJECTED for a queue
\* entry, the entry is deleted from queue, exactly one record carrying that
\* status is appended to the store of that status (rejected for REJECTED,
\* canceled for CANCELED) and none to the other, and the key's open and closed
\* positions are as they were
C21_UnfilledMovesToAudit ==
    [][\A e \in Events(trace', "get_order") :
          (Answers(e) /\ e.resp.status \in {"CANCELED", "REJECTED"}) =>
             LET key == KeyOf(e.queue_order)
                 into == IF e.resp.status = "REJECTED" THEN Added(rejected, rejected')
                         ELSE Added(canceled, canceled')
                 other == IF e.resp.status = "REJECTED" THEN Added(canceled, canceled')
                          ELSE Added(rejected, rejected')
             IN  /\ e.queue_order \in Range(queue)
                 /\ key \notin Keys(queue')
                 /\ Cardinality({r \in into : KeyOf(r) = key}) = 1
                 /\ \A r \in into : KeyOf(r) = key => r.Order_Status = e.resp.status
                 /\ \A r \in other : KeyOf(r) # key
                 /\ Len(rejected') + Len(canceled') = Len(rejected) + Len(canceled) + 1
                 /\ OfKey(open_positions', key) = OfKey(open_positions, key)
                 /\ OfKey(closed_positions', key) = OfKey(closed_positions, key)]_vars

C21_Witness ==
    /\ Events(trace, "pushOrder") = {}
    /\ \E e \in Events(trace, "get_order") :
          /\ Answers(e)
          /\ e.resp.status = "CANCELED"
          /\ e.queue_order.Direction = "CLOSE POSITION"
          /\ KeyOf(e.queue_order) \notin Keys(queue)
          /\ KeyOf(e.queue_order) \in Keys(open_positions)
          /\ \E r \in Range(canceled) :
                KeyOf(r) = KeyOf(e.queue_order) /\ r.Order_Status = "CANCELED"

Resolving == {"FILLED", "CANCELED", "REJECTED"}

\* C22: when a poll finds the broker reporting a status other than FILLED,
\* CANCELED and REJECTED for a queue entry, the entry stays in queue with its
\* Order_Status set to that status and every other field as it was, the queue
\* entries the poll did not ask about are as they were, and the key's records
\* in open_positions, closed_positions, rejected and canceled are as they were
C22_StatusUpdateFrame ==
    [][\A e \in Events(trace', "get_order") :
          (Answers(e) /\ e.resp.status \notin Resolving) =>
             LET key == KeyOf(e.queue_order)
             IN  /\ e.queue_order \in Range(queue)
                 /\ OfKey(queue', key) =
                       <<[k \in DOMAIN e.queue_order |->
                            IF k = "Order_Status" THEN e.resp.status
                            ELSE e.queue_order[k]]>>
                 /\ \A i \in DOMAIN queue :
                       (\A g \in Events(trace', "get_order") : g.queue_order # queue[i])
                          => i \in DOMAIN queue' /\ queue'[i] = queue[i]
                 /\ OfKey(open_positions', key) = OfKey(open_positions, key)
                 /\ OfKey(closed_positions', key) = OfKey(closed_positions, key)
                 /\ OfKey(rejected', key) = OfKey(rejected, key)
                 /\ OfKey(canceled', key) = OfKey(canceled, key)]_vars

C22_Witness ==
    \E e \in Events(trace, "get_order") :
        /\ Answers(e)
        /\ e.resp.status = "WORKING"
        /\ e.queue_order.Order_Status = "QUEUED"
        /\ e.queue_order.Direction = "CLOSE POSITION"
        /\ \E q \in Range(queue) :
              /\ q.Order_ID = e.queue_order.Order_ID
              /\ q.Order_Status = "WORKING"
              /\ q.Exit_Price = e.queue_order.Exit_Price

\* the poll hands the order to pushOrder: the broker does not know the order,
\* or reports it FILLED
Resolves(e) == Has(e.resp, "error") \/ Filled(e)

\* pushOrder gets as far as the insert: an OPEN POSITION order, or a CLOSE
\* POSITION order whose open position is there
ReachesInsert(e, open) ==
    e.queue_order.Direction = "OPEN POSITION" \/ KeyOf(e.queue_order) \in Keys(open)

InsertOutcomeOf(tr, e) ==
    {p.ins : p \in {p \in Events(tr, "pushOrder") : p.Order_ID = e.queue_order.Order_ID}}

Notified(tr, e) ==
    \E n \in Events(tr, "push.send") : KeyOf(n) = KeyOf(e.queue_order)

\* C23 as stated: whether the insert of pushOrder succeeds at once, succeeds at
\* the retry or fails both times, the queue entry is deleted and the
\* notification is sent
C23_CleanupWhateverTheInsert ==
    [][\A e \in Events(trace', "get_order") :
          (Resolves(e) /\ ReachesInsert(e, open_positions)) =>
             /\ KeyOf(e.queue_order) \notin Keys(queue')
             /\ Notified(trace', e)]_vars

\* the part of C23 that holds: unless the retry fails too, the queue entry is
\* deleted and the notification is sent
C23_CleanupUnlessRetryFails ==
    [][\A e \in Events(trace', "get_order") :
          (/\ Resolves(e)
           /\ ReachesInsert(e, open_positions)
           /\ "retry_fail" \notin InsertOutcomeOf(trace', e)) =>
             /\ KeyOf(e.queue_order) \notin Keys(queue')
             /\ Notified(trace', e)]_vars

\* C24 as stated: when pushOrder resolves a CLOSE POSITION order and the key has
\* no open position, no exception leaves pushOrder's body and the queue entry
\* is deleted
C24_AbsentPositionStillCleansUp ==
    [][\A e \in Events(trace', "get_order") :
          (/\ Resolves(e)
           /\ e.queue_order.Direction = "CLOSE POSITION"
           /\ KeyOf(e.queue_order) \notin Keys(open_positions)) =>
             /\ KeyOf(e.queue_order) \notin Keys(queue')
             /\ \A x \in Events(trace', "exception") : x.in # "pushOrder"]_vars

\* the calls that go to the broker, and the operation that makes each
BrokerCalls == {"quote", "order_place", "get_order", "getSpecificOrder", "getAccount"}

OperationOf(call) ==
    CASE call \in {"quote", "order_place"} -> "sendOrder"
      [] call = "get_order" -> "updateStatus"
      [] call = "getSpecificOrder" -> "checkOCOtriggers"
      [] call = "getAccount" -> "refreshAccountSummary"

TaskFailed(tr) ==
    \E x \in Events(tr, "exception") :
        x.in \in {"checkOCOtriggers", "updateAccountBalance", "pushOrder"}

C27_DrainsAndStops ==
    /\ [][/\ ~isAlive =>
                /\ Events(trace', "checkOCOtriggers") = {}
                /\ tpc = "top" => tpc' \in {"top", "stopped"}
                /\ tpc = "sleep" => tpc' \in {"sleep", "top"}
                /\ tpc = "balance" => tpc' \in {"balance", "sleep"}
          /\ tpc = "stopped" => tpc' = "stopped"]_vars
    /\ (~isAlive ~> tpc = "stopped")

\* the loop has stopped after an iteration that resized the strategies
C27_Witness ==
    /\ tpc = "stopped"
    /\ ~isAlive
    /\ \E c \in Range(strategies), v \in LiquidationValues :
          c.Position_Size = DynamicPositionSize(v)

\* a collection after a step holds what it held, in place, and maybe more
GrowsFrom(before, after) ==
    /\ Len(after) >= Len(before)
    /\ \A i \in DOMAIN before : after[i] = before[i]

\* C28: rejected and canceled are append-only: a step never removes a record
\* from either and never changes a field of a record either holds
C28_AuditStoresAppendOnly ==
    [][GrowsFrom(rejected, rejected') /\ GrowsFrom(canceled, canceled')]_vars

\* rejected holds the record of an earlier step while the poll of the last
\* step appends to canceled
C28_Witness ==
    /\ rejected # <<>>
    /\ canceled # <<>>
    /\ rejected[1].Date < canceled[Len(canceled)].Date
    /\ \E e \in Events(trace, "get_order") : Answers(e) /\ e.resp.status = "CANCELED"

\* what sendOrder leaves in the stores when the instance is freshly
\* constructed: its builder holds the dicts of OrderBuilder.__init__
FreshInstance == [World EXCEPT !.obj = InitialObj, !.order = InitialOrder]

\* C29 as stated: for the same stores, signal, quote and broker answer, the
\* records sendOrder writes are those a freshly constructed instance writes,
\* whatever orders the instance has built before
C29_FreshInstanceWritesSame ==
    [][\A e \in Events(trace', "sendOrder") :
          LET fresh == sendOrder(FreshInstance, e.trade_data, e.strategy_object,
                                 e.direction, e.in)
          IN  /\ queue' = fresh.queue
              /\ rejected' = fresh.rejected]_vars

\* the audit records of declined submissions of a signal: sendOrder files them
\* with the signal's side as Order_Type
DeclinedBefore(coll, trade_data) ==
    {r \in Range(coll) : /\ r.Symbol = trade_data.Symbol
                         /\ r.Strategy = trade_data.Strategy
                         /\ r.Order_Type = trade_data.Side}

---------------------------------------------------------------------------
(* The polling cycle under fairness *)

\* the broker's answer settles the order: not found, or FILLED, CANCELED or
\* REJECTED for the order asked about
Terminal(in) ==
    \/ Has(in.resp, "error")
    \/ in.resp.status \in {"FILLED", "CANCELED", "REJECTED"}

TerminalInputs(queue_order) ==
    {in \in PollInputs(queue_order, StoreWorks) :
        /\ Terminal(in)
        /\ Has(in.resp, "orderId") => in.resp.orderId = queue_order.Order_ID}

RECURSIVE TerminalInputSeqs(_)
TerminalInputSeqs(queued_orders) ==
    IF queued_orders = <<>> THEN {<<>>}
    ELSE {<<i>> \o rest : i \in TerminalInputs(Head(queued_orders)),
                          rest \in TerminalInputSeqs(Tail(queued_orders))}

\* a cycle whose token checks pass and whose poll gets a settling answer for
\* every queued order, the store taking the insert
PollTerminal ==
    /\ pc = "idle"
    /\ \E ins \in TerminalInputSeqs(QueuedOrders(World)) :
          \E w \in {updateStatus(World, TRUE, ins)} : Commit(w)
    /\ pc' = "rows"
    /\ UNCHANGED <<users, tokens_file, unix_time, frames, RUN_LIVE_TRADER, forbidden, clock, isAlive, tpc>>

\* the trader on the collections of an earlier run, the store failing an
\* insert now and then
NextPolling ==
    \/ RunTraderBegin(InsertOutcomes)
    \/ RunTraderRow
    \/ RunTraderEnd

SpecPolling == InitHoldsPosition /\ [][NextPolling]_vars

\* trade_data is finite, so every pass ends; runTrader is called again and
\* again, and again and again with the token valid and the broker's answers
\* settling
FairPolling ==
    SpecPolling /\ WF_vars(RunTraderEnd) /\ SF_vars(PollTerminal)

\* the keys a signal can carry
SignalKeys == {KeyOf(r) : r \in Rows}

\* C31 as stated: with the polling fair, a key that is queued is eventually not
\* queued, and the step that takes a key out of the queue adds a record to
\* open_positions, closed_positions, rejected or canceled
C31_QueuedEventuallyResolved ==
    /\ [][\A k \in Keys(queue) \ Keys(queue') :
             Added(open_positions, open_positions') \cup
             Added(closed_positions, closed_positions') \cup
             Added(rejected, rejected') \cup Added(canceled, canceled') # {}]_vars
    /\ \A k \in SignalKeys : (k \in Keys(queue)) ~> (k \notin Keys(queue))

\* the liveness half of C31 alone
C31_QueuedEventuallyLeaves ==
    \A k \in SignalKeys : (k \in Keys(queue)) ~> (k \notin Keys(queue))

\* the same fairness with a store that takes every insert
FairHoldsPosition ==
    SpecHoldsPosition /\ WF_vars(RunTraderEnd) /\ SF_vars(PollTerminal)

\* the leg answers of a step with one status, for one position
LegAnswers(tr, key, statuses) ==
    {i \in DOMAIN tr : /\ tr[i].op = "getSpecificOrder"
                       /\ tr[i].position = key
                       /\ tr[i].status \in statuses}

AuditsAdded(before, after, key, status) ==
    {i \in (Len(before) + 1)..Len(after) :
        KeyOf(after[i]) = key /\ after[i].Order_Status = status}

\* the last answer a step got for a leg
LastAnswer(tr, key, id) ==
    LET is == {i \in DOMAIN tr : /\ tr[i].op = "getSpecificOrder"
                                 /\ tr[i].position = key
                                 /\ tr[i].order_id = id}
    IN  tr[CHOOSE i \in is : \A j \in is : j <= i].status

\* the legs of a key's OCO position
TrackedLegs(coll, key) ==
    UNION {DOMAIN p.childOrderStrategies :
              p \in {p \in Range(coll) : /\ KeyOf(p) = key
                                         /\ p.Order_Type = "OCO"
                                         /\ Has(p, "childOrderStrategies")}}

\* checkOCOtriggers asks the broker about every tracked leg of every OCO
\* position, and per answer: CANCELED or REJECTED adds one audit record to the
\* matching store, any status but FILLED, CANCELED and REJECTED becomes the
\* leg's Order_Status in the open position
LegBranchesButFilled ==
    Events(trace', "checkOCOtriggers") # {} =>
       \A key \in Keys(open_positions) :
          /\ \A id \in TrackedLegs(open_positions, key) :
                /\ \E e \in Events(trace', "getSpecificOrder") :
                      e.position = key /\ e.order_id = id
                /\ LET st == LastAnswer(trace', key, id)
                   IN  st \notin {"FILLED", "CANCELED", "REJECTED"} =>
                          \A p \in Range(open_positions') :
                             KeyOf(p) = key => p.childOrderStrategies[id].Order_Status = st
          /\ Cardinality(AuditsAdded(canceled, canceled', key, "CANCELED"))
                = Cardinality(LegAnswers(trace', key, {"CANCELED"}))
          /\ Cardinality(AuditsAdded(rejected, rejected', key, "REJECTED"))
                = Cardinality(LegAnswers(trace', key, {"REJECTED"}))

C32_LegBranchingButFilled == [][LegBranchesButFilled]_vars

\* the price the claim names for a side and a quote
BuyTypeSides == {"BUY", "BUY_TO_OPEN", "BUY_TO_CLOSE"}
SellTypeSides == {"SELL", "SELL_TO_OPEN", "SELL_TO_CLOSE"}

SidePrice(side, quote, bracket) ==
    IF bracket \/ side \in SellTypeSides THEN quote.bidPrice
    ELSE IF side \in BuyTypeSides THEN quote.askPrice
    ELSE -1

InverseOf ==
    [BUY_TO_OPEN |-> "SELL_TO_CLOSE", BUY |-> "SELL", SELL |-> "BUY",
     SELL_TO_OPEN |-> "BUY_TO_CLOSE"]

\* c is the whole number of cents nearest to price x percentage / 100
IsCentsOf(c, price, percentage) ==
    LET cent == PriceUnit \div 100
    IN  /\ c % cent = 0
        /\ 2 * (100 * c - price * percentage) <= 100 * cent
        /\ 2 * (price * percentage - 100 * c) <= 100 * cent

\* sendOrder got a payload from OCOorder
BuiltOCO(tr, e) ==
    /\ e.strategy_object.Order_Type = "OCO"
    /\ Events(tr, "quote") # {}
    /\ Events(tr, "exception") = {}

\* a leg of the bracket: one order leg with the parent's quantity and the
\* inverse of the signal side
IsBracketLeg(child, parent, side) ==
    /\ child.orderStrategyType = "SINGLE"
    /\ Len(child.orderLegCollection) = 1
    /\ child.orderLegCollection[1].quantity = parent.orderLegCollection[1].quantity
    /\ side \in DOMAIN InverseOf
    /\ child.orderLegCollection[1].instruction = InverseOf[side]

\* C34: the payload OCOorder builds has a TRIGGER parent with exactly one
\* nested OCO group of two children, a LIMIT take-profit at the parent's price
\* x the take-profit multiplier and a STOP stop-loss at the parent's price x
\* the stop-loss multiplier (to the cent), both with the parent's quantity and
\* the inverse of the signal side; it is the payload handed to order_place
C34_BracketShape ==
    [][\A e \in Events(trace', "sendOrder") :
          BuiltOCO(trace', e) =>
             /\ order'.orderStrategyType = "TRIGGER"
             /\ Len(order'.childOrderStrategies) = 1
             /\ LET group == order'.childOrderStrategies[1]
                IN  /\ group.orderStrategyType = "OCO"
                    /\ Len(group.childOrderStrategies) = 2
                    /\ LET tp == group.childOrderStrategies[1]
                           sl == group.childOrderStrategies[2]
                       IN  /\ tp.orderType = "LIMIT"
                           /\ ~Has(tp, "stopPrice")
                           /\ IsCentsOf(tp.price, order'.price, TAKE_PROFIT_PERCENTAGE)
                           /\ sl.orderType = "STOP"
                           /\ ~Has(sl, "price")
                           /\ IsCentsOf(sl.stopPrice, order'.price, STOP_LOSS_PERCENTAGE)
                           /\ IsBracketLeg(tp, order', e.trade_data.Side)
                           /\ IsBracketLeg(sl, order', e.trade_data.Side)
             /\ \A b \in Events(trace', "order_place") : b.order = order']_vars

\* a SELL_TO_OPEN order with its bracket of BUY_TO_CLOSE legs is placed, the
\* take-profit above and the stop-loss below the parent's price
C34_Witness ==
    \E e \in Events(trace, "sendOrder"), b \in Events(trace, "order_place") :
        /\ BuiltOCO(trace, e)
        /\ e.trade_data.Side = "SELL_TO_OPEN"
        /\ b.order.orderStrategyType = "TRIGGER"
        /\ LET cs == b.order.childOrderStrategies[1].childOrderStrategies
           IN  /\ cs[1].orderLegCollection[1].instruction = "BUY_TO_CLOSE"
               /\ cs[1].orderLegCollection[1].quantity > 0
               /\ cs[2].stopPrice < b.order.price
               /\ b.order.price < cs[1].price

\* the open position of a key
OpenOf(coll, key) == CHOOSE p \in Range(coll) : KeyOf(p) = key

\* C35: a CLOSE POSITION order is built from the key's open position: the
\* quantity in the payload (and in the payload handed to order_place) and the
\* Qty, Entry_Price, Entry_Date and Position_Size of the draft are the
\* position's, and so are those of the queue entry the step writes, whatever
\* the quote and the strategy's Position_Size are now
C35_CloseFromOpenPosition ==
    [][\A e \in Events(trace', "sendOrder") :
          (e.direction = "CLOSE POSITION" /\ Events(trace', "quote") # {}) =>
             /\ KeyOf(e.trade_data) \in Keys(open_positions)
             /\ LET p == OpenOf(open_positions, KeyOf(e.trade_data))
                    same(d) == /\ d.Qty = p.Qty
                               /\ d.Entry_Price = p.Entry_Price
                               /\ d.Entry_Date = p.Entry_Date
                               /\ d.Position_Size = p.Position_Size
                IN  /\ order'.orderLegCollection[1].quantity = p.Qty
                    /\ same(obj')
                    /\ \A b \in Events(trace', "order_place") :
                          b.order.orderLegCollection[1].quantity = p.Qty
                    /\ \A q \in Range(queue') :
                          KeyOf(q) = KeyOf(e.trade_data) =>
                             q.Direction = "CLOSE POSITION" /\ same(q)]_vars

\* a position filled at another price than quoted is closed at a quote that
\* would buy no contract at all: the queue entry has the position's quantity
\* and entry
C35_Witness ==
    \E e \in Events(trace, "sendOrder"), q \in Range(queue) :
        /\ e.direction = "CLOSE POSITION"
        /\ KeyOf(q) = KeyOf(e.trade_data)
        /\ q.Direction = "CLOSE POSITION"
        /\ Shares(q.Asset_Type, e.strategy_object.Position_Size, PriceTaken(e)) = 0
        /\ q.Qty > 0
        /\ q.Entry_Price # PriceTaken(e)
        /\ \E x \in ExecPrices : q.Entry_Price = FillPrice([price |-> x])
        /\ q.Exit_Price = PriceTaken(e)

---------------------------------------------------------------------------
(* The two threads of one instance, statement by statement: the trader's    *)
(* updateStatus and the tasks thread's checkOCOtriggers each call pushOrder *)
(* on the same collections, and a collection call of one thread may fall    *)
(* between two collection calls of the other                                *)

SetFrame(t, f) == frames' = [frames EXCEPT ![t] = f]

\* the frame of a thread back in the loop that called pushOrder
BackInLoop(f) == [at |-> "loop", todo |-> f.todo]

\* pushOrder up to its first collection call (lines 300-345): the reads of
\* queue_order, where a missing key ends the call
PushEnter(w, f, queue_order, spec_order, data_integrity) ==
    LET w1 == Log(w, [op |-> "pushOrder", Order_ID |-> queue_order.Order_ID,
                      Data_Integrity |-> data_integrity, ins |-> "ok"])
        call == [todo |-> f.todo, queue_order |-> queue_order,
                 spec_order |-> spec_order, data_integrity |-> data_integrity]
    IN  IF ~(pushOrderReads \subseteq DOMAIN queue_order)
           \/ (queue_order.Asset_Type = "OPTION"
               /\ ~({"Pre_Symbol", "Exp_Date", "Option_Type"} \subseteq DOMAIN queue_order))
        THEN [w |-> Raised(w1, "pushOrder"), frame |-> BackInLoop(f)]
        ELSE IF queue_order.Direction = "OPEN POSITION"
        THEN [w |-> w1,
              frame |-> Merge(call, [at |-> "insert",
                                     rec |-> OpenRecord(queue_order, spec_order,
                                                        data_integrity)])]
        ELSE [w |-> w1, frame |-> Merge(call, [at |-> "find"])]

\* one collection call of pushOrder, or its notification
PushStep(w, f) ==
    CASE f.at = "find" ->                                    \* lines 352-361
            LET position == find_one(w.open_positions, KeyOf(f.queue_order))
            IN  IF IsNone(position)
                THEN [w |-> Raised(w, "pushOrder"), frame |-> BackInLoop(f)]
                ELSE [w |-> w,
                      frame |-> Merge(f, [at |-> "delete",
                                          rec |-> ClosedRecord(f.queue_order, f.spec_order,
                                                               f.data_integrity, position)])]
      [] f.at = "delete" ->                                  \* lines 371-386
            [w |-> [w EXCEPT !.open_positions = delete_one(@, KeyOf(f.queue_order))],
             frame |-> Merge(f, [at |-> "insert"])]
      [] f.at = "insert" ->                                  \* line 390
            [w |-> IF f.queue_order.Direction = "OPEN POSITION"
                   THEN [w EXCEPT !.open_positions = insert_one(@, f.rec)]
                   ELSE [w EXCEPT !.closed_positions = insert_one(@, f.rec)],
             frame |-> Merge(f, [at |-> "dequeue"])]
      [] f.at = "dequeue" ->                                 \* lines 410-415
            [w |-> [w EXCEPT !.queue = delete_one(@, Merge(KeyOf(f.queue_order),
                                                           [account_id |-> account_id]))],
             frame |-> Merge(f, [at |-> "notify"])]
      [] f.at = "notify" ->                                  \* line 416
            [w |-> Log(w, [op |-> "push.send", Symbol |-> f.queue_order.Symbol,
                           Strategy |-> f.queue_order.Strategy,
                           Direction |-> f.queue_order.Direction,
                           rec |-> f.rec]),
             frame |-> BackInLoop(f)]

InPushOrder(f) == f.at \in {"find", "delete", "insert", "dequeue", "notify"}

\* a thread inside pushOrder makes its next call
PushOrderStep(t) ==
    /\ InPushOrder(frames[t])
    /\ \E r \in {PushStep(World, frames[t])} :
          /\ Commit(r.w)
          /\ SetFrame(t, r.frame)
    /\ UNCHANGED <<users, tokens_file, unix_time, RUN_LIVE_TRADER, forbidden, pc, clock, isAlive, tpc>>

\* whether the poll hands the order to pushOrder (lines 235, 256-260)
PollPushes(queue_order, in) ==
    \/ Has(in.resp, "error")
    \/ queue_order.Order_ID = in.resp.orderId /\ in.resp.status = "FILLED"

\* runTrader up to the loop of updateStatus (lines 428-432 and 222-230): the token checks
\* and the read of the queued orders
TraderBegin ==
    /\ pc = "idle"
    /\ frames["trader"] = Idle
    /\ \/ /\ Commit(World)
          /\ pc' = "idle"
          /\ UNCHANGED frames
       \/ /\ Commit(updateStatus(World, FALSE, <<>>))
          /\ pc' = "rows"
          /\ UNCHANGED frames
       \/ /\ Commit(checkTokenValidity(World, "updateStatus", TRUE))
          /\ pc' = "poll"
          /\ SetFrame("trader", [at |-> "loop", todo |-> QueuedOrders(World)])
    /\ UNCHANGED <<users, tokens_file, unix_time, RUN_LIVE_TRADER, forbidden, clock, isAlive, tpc>>

\* one pass of the loop of updateStatus up to the call of pushOrder, or the
\* whole pass when pushOrder is not called (lines 232-290)
TraderPoll ==
    /\ pc = "poll"
    /\ frames["trader"].at = "loop"
    /\ LET f == frames["trader"]
       IN  IF f.todo = <<>>
           THEN /\ Commit(World)
                /\ SetFrame("trader", Idle)
                /\ pc' = "rows"
           ELSE LET queue_order == Head(f.todo)
                    rest == [at |-> "loop", todo |-> Tail(f.todo)]
                IN  /\ pc' = pc
                    /\ \E in \in PollInputs(queue_order, StoreWorks) :
                          IF PollPushes(queue_order, in)
                          THEN LET w == Log(World, [op |-> "get_order",
                                                    queue_order |-> queue_order,
                                                    resp |-> in.resp])
                                   withLegs ==
                                       IF ~Has(in.resp, "error") /\ queue_order.Order_Type = "OCO"
                                       THEN Merge(queue_order, extractOCOchildren(in.resp))
                                       ELSE queue_order
                               IN  \E r \in {PushEnter(w, rest, withLegs,
                                                IF Has(in.resp, "error")
                                                THEN Custom(queue_order) ELSE in.resp,
                                                IF Has(in.resp, "error")
                                                THEN DataIntegrity ELSE "Reliable")} :
                                      /\ Commit(r.w)
                                      /\ SetFrame("trader", r.frame)
                          ELSE /\ \E w \in {updateStatusOne(World, queue_order, in)} :
                                     Commit(w)
                               /\ SetFrame("trader", rest)
    /\ UNCHANGED <<users, tokens_file, unix_time, RUN_LIVE_TRADER, forbidden, clock, isAlive, tpc>>

\* the legs checkOCOtriggers goes through, position by position; a position
\* without the child-order map ends the list with the KeyError of line 93
RECURSIVE LegsTodo(_)
LegsTodo(positions) ==
    IF positions = <<>> THEN <<>>
    ELSE LET position == Head(positions)
         IN  IF ~Has(position, "childOrderStrategies") THEN <<[raise |-> "KeyError"]>>
             ELSE LET ids == KeysInOrder(DOMAIN position.childOrderStrategies)
                  IN  [i \in DOMAIN ids |-> [position |-> position, order_id |-> ids[i]]]
                      \o LegsTodo(Tail(positions))

\* the while test and the read of the OCO positions (tasks.py lines 184-189)
TasksBegin ==
    /\ tpc = "top"
    /\ LoopContinues(isAlive)
    /\ frames["tasks"] = Idle
    /\ Commit(Log(World, [op |-> "checkOCOtriggers",
                          positions |-> Len(OCOpositions(World))]))
    /\ SetFrame("tasks", [at |-> "loop", todo |-> LegsTodo(OCOpositions(World))])
    /\ tpc' = "legs"
    /\ UNCHANGED <<users, tokens_file, unix_time, RUN_LIVE_TRADER, forbidden, pc, clock, isAlive>>

\* one leg of checkOCOtriggers up to the call of pushOrder, or the whole leg
\* when pushOrder is not called (tasks.py lines 93-126)
TasksLeg ==
    /\ tpc = "legs"
    /\ frames["tasks"].at = "loop"
    /\ LET f == frames["tasks"]
       IN  IF f.todo = <<>>
           THEN /\ Commit(World)
                /\ SetFrame("tasks", Idle)
                /\ tpc' = "balance"
           ELSE IF Has(Head(f.todo), "raise")
           THEN /\ Commit(Raised(World, "checkOCOtriggers"))
                /\ SetFrame("tasks", Idle)
                /\ tpc' = "balance"
           ELSE LET leg == Head(f.todo)
                    rest == [at |-> "loop", todo |-> Tail(f.todo)]
                IN  /\ tpc' = tpc
                    /\ \E a \in {[status |-> st, price |-> p] :
                                    st \in ChildStatuses, p \in ExecPrices} :
                          /\ WithinAudit(leg.order_id :> a)
                          /\ IF a.status = "FILLED"
                             THEN \E r \in {PushEnter(
                                              Log(World, [op |-> "getSpecificOrder",
                                                          order_id |-> leg.order_id,
                                                          position |-> KeyOf(leg.position),
                                                          status |-> a.status]),
                                              rest, LegOrder(leg.position, leg.order_id),
                                              a, "Reliable")} :
                                     /\ Commit(r.w)
                                     /\ SetFrame("tasks", r.frame)
                             ELSE /\ \E w \in {checkOCOchildren(World, leg.position,
                                                  <<leg.order_id>>, leg.order_id :> a)} :
                                        Commit(w)
                                  /\ SetFrame("tasks", rest)
    /\ UNCHANGED <<users, tokens_file, unix_time, RUN_LIVE_TRADER, forbidden, pc, clock, isAlive>>

\* the stores and the builder after an earlier cycle queued the order that
\* closes the open OCO position: what sendOrder leaves for a closing signal
ClosingSignals ==
    {r \in Rows : r.Asset_Type = "OPTION" /\ r.Side \in {"SELL", "SELL_TO_CLOSE"}}

CloseQueued(config) ==
    LET w0 == [strategies |-> <<config>>, queue |-> <<>>,
               open_positions |-> <<BracketPosition>>, closed_positions |-> <<>>,
               rejected |-> <<>>, canceled |-> <<>>, obj |-> InitialObj,
               order |-> InitialOrder, trace |-> <<>>]
    IN  {w \in {runTraderRow(w0, r, in) : r \in ClosingSignals, in \in SendInputs} :
            w.queue # <<>>}

\* the trader and its tasks thread while no further signal arrives
InitThreads ==
    /\ RUN_LIVE_TRADER \in BOOLEAN
    /\ clock = 1
    /\ forbidden = <<>>
    /\ \E config \in {x \in StrategyConfigs : x.Position_Type = "LONG"} :
          \E w \in CloseQueued(config) :
             /\ strategies = w.strategies
             /\ queue = w.queue
             /\ open_positions = w.open_positions
             /\ closed_positions = w.closed_positions
             /\ rejected = w.rejected
             /\ canceled = w.canceled
             /\ obj = w.obj
             /\ order = w.order
    /\ pc = "idle"
    /\ isAlive = TRUE
    /\ tpc = "top"
    /\ frames = NoFrames
    /\ TokenAtRest
    /\ trace = <<>>

NextThreads ==
    \/ TraderBegin
    \/ TraderPoll
    \/ RunTraderEnd
    \/ TasksBegin
    \/ TasksLeg
    \/ \E t \in Threads : PushOrderStep(t)
    \/ UpdateAccountBalance
    \/ Sleep

SpecThreads == InitThreads /\ [][NextThreads]_vars

\* two closed records of one open position: the same key and the same entry
FromSamePosition(a, b) ==
    /\ KeyOf(a) = KeyOf(b)
    /\ a.Entry_Date = b.Entry_Date
    /\ a.Entry_Price = b.Entry_Price
    /\ a.Qty = b.Qty

\* C36: with the trader's updateStatus and the tasks thread's checkOCOtriggers
\* interleaved call by call, closed_positions never holds two records of one
\* open position, and a close notification is only ever sent by the thread
\* whose own record is the position's one closed record
C36_ClosedAtMostOnce ==
    /\ [](\A i, j \in DOMAIN closed_positions :
             i # j => ~FromSamePosition(closed_positions[i], closed_positions[j]))
    /\ [][\A n \in Events(trace', "push.send") :
             n.Direction = "CLOSE POSITION" =>
                /\ Cardinality({i \in DOMAIN closed_positions' :
                                   FromSamePosition(closed_positions'[i], n.rec)}) = 1
                /\ n.rec \in Range(closed_positions')
                /\ \A t \in Threads :
                      frames'[t].at \notin {"insert", "dequeue", "notify"}]_vars

\* the trader is between its delete of the open position and its insert of
\* the closed record when the tasks thread, which read the position before,
\* gets FILLED for a leg of it and calls pushOrder
C36_Witness ==
    /\ frames["trader"].at = "insert"
    /\ frames["trader"].queue_order.Direction = "CLOSE POSITION"
    /\ open_positions = <<>>
    /\ \E e \in Events(trace, "getSpecificOrder") :
          /\ e.status = "FILLED"
          /\ e.position = KeyOf(frames["trader"].queue_order)
    /\ Events(trace, "pushOrder") # {}

---------------------------------------------------------------------------
(* One instance building orders of both order types *)

\* the operator changes a strategy's order type in the strategies collection
OperatorSetsOrderType ==
    /\ \E i \in DOMAIN strategies :
         strategies' = [strategies EXCEPT ![i].Order_Type =
                           IF @ = "OCO" THEN "STANDARD" ELSE "OCO"]
    /\ trace' = <<>>
    /\ UNCHANGED <<users, tokens_file, unix_time, frames, RUN_LIVE_TRADER, forbidden, queue, open_positions,
                   closed_positions, rejected, canceled, obj, order, pc, clock,
                   isAlive, tpc>>

NextReconfigured ==
    \/ RunTraderBegin(StoreWorks)
    \/ RunTraderRow
    \/ RunTraderEnd
    \/ OperatorSetsOrderType

SpecReconfigured == InitHoldsPosition /\ [][NextReconfigured]_vars

\* a STANDARD payload is a single order without children
IsSinglePayload(o) ==
    o.orderStrategyType = "SINGLE" /\ ~Has(o, "childOrderStrategies")

\* an OPEN POSITION draft has no exit
HasNoExit(d) == ~Has(d, "Exit_Price") /\ ~Has(d, "Exit_Date")

\* the first half of C37: the payload built for a STANDARD order, and the one
\* handed to order_place, has orderStrategyType SINGLE and no child order
\* strategies
StandardPayloadIsSingle ==
    \A e \in Events(trace', "sendOrder") :
       (e.strategy_object.Order_Type = "STANDARD" /\ Events(trace', "quote") # {}) =>
          /\ IsSinglePayload(order')
          /\ \A b \in Events(trace', "order_place") : IsSinglePayload(b.order)

\* the second half of C37: the draft built for an OPEN POSITION order, and the
\* queue entry written from it, has no Exit_Price and no Exit_Date
OpenDraftHasNoExit ==
    \A e \in Events(trace', "sendOrder") :
       (e.direction = "OPEN POSITION" /\ Events(trace', "quote") # {}) =>
          /\ HasNoExit(obj')
          /\ \A q \in Range(queue') :
                (KeyOf(q) = KeyOf(e.trade_data) /\ q.Direction = "OPEN POSITION") =>
                   HasNoExit(q)

\* C37 as stated: whatever orders the instance built before, the payload built
\* for a STANDARD order has orderStrategyType SINGLE and no child order
\* strategies, and the queue draft built for an OPEN POSITION order carries no
\* Exit_Price or Exit_Date
C37_NothingLeftFromEarlierBuilds ==
    [][StandardPayloadIsSingle /\ OpenDraftHasNoExit]_vars

\* C37, the payload alone
C37_StandardPayloadIsSingle == [][StandardPayloadIsSingle]_vars

\* C37, the draft alone
C37_OpenDraftHasNoExit == [][OpenDraftHasNoExit]_vars

\* C38 as stated: the payload of a CLOSE POSITION order handed to order_place
\* has no child order strategies, whatever the strategy's order type
C38_CloseCarriesNoBracket ==
    [][\A e \in Events(trace', "sendOrder") :
          e.direction = "CLOSE POSITION" =>
             \A b \in Events(trace', "order_place") :
                ~Has(b.order, "childOrderStrategies")]_vars

\* the part of C38 that holds: the close of a STANDARD strategy built by a
\* fresh instance is sent without children
C38_StandardCloseCarriesNoBracket ==
    [][\A e \in Events(trace', "sendOrder") :
          (/\ e.direction = "CLOSE POSITION"
           /\ e.strategy_object.Order_Type = "STANDARD"
           /\ ~Has(order, "childOrderStrategies")) =>
             \A b \in Events(trace', "order_place") :
                ~Has(b.order, "childOrderStrategies")]_vars

---------------------------------------------------------------------------
(* The token check on its own *)

\* no order is being handled; the tokens file is the one the Client wrote or
\* cannot be read, the refresh token runs out in five or in six days
InitToken ==
    /\ RUN_LIVE_TRADER = TRUE
    /\ strategies = <<>>
    /\ forbidden = <<>>
    /\ queue = <<>>
    /\ open_positions = <<>>
    /\ closed_positions = <<>>
    /\ rejected = <<>>
    /\ canceled = <<>>
    /\ obj = InitialObj
    /\ order = InitialOrder
    /\ pc = "idle"
    /\ clock = 0
    /\ isAlive = TRUE
    /\ tpc = "top"
    /\ frames = NoFrames
    /\ users \in {FirstAccount(d) : d \in {RefreshWarnDays, RefreshWarnDays + 1}}
    /\ tokens_file \in {NoDoc, TokensDocument(0, 0, FirstTokens)}
    /\ unix_time = 0
    /\ trace = <<>>

\* one call of Schwab.checkTokenValidity
CheckTokenValidity ==
    /\ \E in \in TokenInputs :
          \E r \in {checkTokenValidityBody(users, tokens_file, unix_time, in)} :
             /\ users' = r.users
             /\ tokens_file' = r.tokens_file
             /\ trace' = r.calls
    /\ UNCHANGED <<unix_time, frames, RUN_LIVE_TRADER, strategies, forbidden,
                   queue, open_positions, closed_positions, rejected, canceled,
                   obj, order, pc, clock, isAlive, tpc>>

\* time.time() moves on between two calls
TimePasses ==
    /\ \E d \in TimeSteps :
          /\ unix_time + d <= MaxTime
          /\ unix_time' = unix_time + d
    /\ trace' = <<>>
    /\ UNCHANGED <<users, tokens_file, frames, RUN_LIVE_TRADER, strategies,
                   forbidden, queue, open_positions, closed_positions, rejected,
                   canceled, obj, order, pc, clock, isAlive, tpc>>

NextToken == CheckTokenValidity \/ TimePasses

SpecToken == InitToken /\ [][NextToken]_vars

\* the stored access token has more than TokenMargin seconds left
Unexpired == unix_time < users.created_at + users.expires_in - TokenMargin

\* a POST of the step that the broker accepted: either grant type is answered
\* with a new access token
RefreshSucceeded(tr) ==
    \E p \in Events(tr, "_post_oauth_token") : p.answer = "ok"

\* C39 as stated: checkTokenValidity returns True only if the stored token is
\* unexpired or the refresh succeeded; with an expired token and no accepted
\* refresh it returns False (or the None of exception_handler) and leaves
\* created_at and expires_in as they were
C39_TrueOnlyIfValidOrRefreshed ==
    [][\A e \in Events(trace', "return") :
          /\ e.value = "True" => (Unexpired \/ RefreshSucceeded(trace'))
          /\ (~Unexpired /\ ~RefreshSucceeded(trace')) =>
                /\ e.value # "True"
                /\ users'.created_at = users.created_at
                /\ users'.expires_in = users.expires_in]_vars

\* the parts of C39 that hold: an unexpired token is answered True without a
\* call; a tokens file that cannot be read, or a POST that raises before any
\* was accepted, ends the call with a value that is not True and leaves the
\* account entry as it was
C39_UnreadableOrRaisedIsNotMarkedFresh ==
    [][\A e \in Events(trace', "return") :
          /\ Unexpired => (e.value = "True" /\ users' = users
                           /\ Events(trace', "_post_oauth_token") = {})
          /\ (~Unexpired
              /\ (\/ IsNone(tokens_file)
                  \/ \E p \in Events(trace', "_post_oauth_token") :
                        p.grant_type = "refresh_token" /\ p.answer = "raises")) =>
                (e.value = "None" /\ users' = users)]_vars

\* the case of C39 that fails, alone: every POST refused, the value is True
\* and created_at is reset
C39_RefusedRefreshIsNotMarkedFresh ==
    [][\A e \in Events(trace', "return") :
          (~Unexpired /\ ~IsNone(tokens_file)
           /\ \A p \in Events(trace', "_post_oauth_token") :
                 p.answer = "refused") =>
             (e.value # "True" /\ users'.created_at = users.created_at)]_vars

====
